---- MODULE Spec2Model ----
(***************************************************************************)
(* Model of the website-framing proxy: the URL translator, the content     *)
(* rewriters, the header and cookie policy and the per-request response    *)
(* controller.                                                             *)
(*                                                                         *)
(* Text is modelled as a sequence of tokens.  A token is a short run of    *)
(* characters that the code never splits ("https:", "/", "example.com",    *)
(* "src", ...); every place where the source tests, splits or replaces     *)
(* text falls on a token boundary of the inputs used here.                 *)
(***************************************************************************)
EXTENDS Integers, Sequences, FiniteSets, TLC

VARIABLES
    \* ---- URL translator harness
    url,            \* the URL handed to rewriteUrl
    ctx,            \* the RewriteContext
    impl,           \* which rewriteUrl: "UrlRewriter" or "ContentProcessor"
    rewritten,      \* rewriteUrl(url)
    rewrittenTwice, \* rewriteUrl(rewriteUrl(url))
    clientRewritten,\* URLRewriter.rewriteUrl(url) of the script in the browser
    extracted,      \* target recovered from the proxied request path
    urlPc,
    \* ---- header and cookie policy
    upHdrs,         \* proxyRes.headers of the last origin response
    upSetCookie,    \* proxyRes.headers['set-cookie'] (<<>>: absent)
    resHdrs,        \* headers set on the client response
    resSetCookie,   \* Set-Cookie values set on the client response
    cookieMappings, \* CookieManager.cookieMappings, process-wide
    latest,         \* history: per domain and name, the pair of the last Set-Cookie
    inReq,          \* the last inbound request: target domain and Cookie header
    upCookie,       \* Cookie header of the origin request built for inReq
    exchanges,      \* number of requests and responses handled so far
    polPc,
    \* ---- content pipeline
    doc,            \* the body handed to the rewriter
    docType,        \* its Content-Type header value
    context,        \* the RewriteContext
    processed,      \* the outcome of the rewriter: [threw, value]
    passes,         \* the injection passes run over the document so far
    contentPc,
    \* ---- one proxied request
    variant,        \* which makeDirectProxyRequest serves it: hybrid or streaming
    originStatus,   \* proxyRes.statusCode
    wire,           \* the bytes of the origin's body
    inbound,        \* req.path of the inbound request
    pxPc,           \* which handlers are attached to the exchange
    up,             \* the exchange with the origin: socket, proxyRes and its reader
    out,            \* res: headersSent, what was sent, writes Express refused
    \* ---- the headers of one origin request
    reqHost,        \* hostname of the target
    inHdrs,         \* req.headers of the inbound request
    outHdrs,        \* the headers of the origin request under construction
    reqPc

urlVars == <<url, ctx, impl, rewritten, rewrittenTwice, clientRewritten, extracted, urlPc>>

polVars == <<upHdrs, upSetCookie, resHdrs, resSetCookie, cookieMappings, latest, inReq,
             upCookie, exchanges, polPc>>

contentVars == <<doc, docType, context, processed, passes, contentPc>>

proxyVars == <<variant, inbound, originStatus, wire, pxPc, up, out>>

reqVars == <<reqHost, inHdrs, outHdrs, reqPc>>

vars == <<urlVars, polVars, contentVars, proxyVars, reqVars>>

-----------------------------------------------------------------------------
(* JavaScript string primitives over token sequences *)

None == <<"<none>">>

startsWith(s, p) == Len(p) <= Len(s) /\ SubSeq(s, 1, Len(p)) = p

endsWith(s, p) == Len(p) <= Len(s) /\ SubSeq(s, Len(s) - Len(p) + 1, Len(s)) = p

\* the value of e, computed once, handed to Op
With(e, Op(_)) == CHOOSE r \in {Op(x) : x \in {e}} : TRUE

\* String.prototype.indexOf, 1-based; 0 when absent
indexOf(str, pat) ==
    With(str, LAMBDA s : With(pat, LAMBDA p :
    With({i \in 1..(Len(s) - Len(p) + 1) : SubSeq(s, i, i + Len(p) - 1) = p}, LAMBDA hits :
        IF hits = {} THEN 0 ELSE CHOOSE i \in hits : \A j \in hits : i <= j)))

includes(s, p) == indexOf(s, p) # 0

\* String.prototype.replace with a string pattern: the first occurrence only
replaceFirst(str, p, r) ==
    With(str, LAMBDA s : With(indexOf(s, p), LAMBDA i :
        IF i = 0 THEN s
        ELSE SubSeq(s, 1, i - 1) \o r \o SubSeq(s, i + Len(p), Len(s))))

\* String.prototype.substring(n) with a 0-based start
substring(s, n) == SubSeq(s, n + 1, Len(s))

\* index of the first token of s at or after position i that is in set T, else 0
RECURSIVE firstIn(_, _, _)
firstIn(s, i, T) ==
    IF i > Len(s) THEN 0
    ELSE IF s[i] \in T THEN i
    ELSE firstIn(s, i + 1, T)

\* String.prototype.split on a one-token separator
RECURSIVE split(_, _)
split(s, sep) ==
    LET i == firstIn(s, 1, {sep})
    IN  IF i = 0 THEN <<s>>
        ELSE <<SubSeq(s, 1, i - 1)>> \o split(SubSeq(s, i + 1, Len(s)), sep)

\* Array.prototype.join
RECURSIVE join(_, _)
join(parts, sep) ==
    IF parts = <<>> THEN <<>>
    ELSE IF Len(parts) = 1 THEN parts[1]
    ELSE parts[1] \o <<sep>> \o join(Tail(parts), sep)

\* Array.prototype.slice(n) with a 0-based start
slice(parts, n) == SubSeq(parts, n + 1, Len(parts))

-----------------------------------------------------------------------------
(* The WHATWG URL parser, as far as the code relies on it *)

SchemeToks == {"http:", "https:"}
HostToks == {"example.com", "other.com", "nouns.com", "www.nouns.com", "localhost"}
PortToks == {":3000", ":8443"}

InvalidURL == [ok |-> FALSE, protocol |-> <<>>, hostname |-> <<>>, port |-> <<>>,
               pathname |-> <<>>, search |-> <<>>, hash |-> <<>>]

\* new URL(s) for an absolute http(s) URL; ok = FALSE stands for the TypeError
NewURL(s) ==
    IF ~(Len(s) >= 4 /\ s[1] \in SchemeToks /\ s[2] = "/" /\ s[3] = "/"
            /\ s[4] \in HostToks)
    THEN InvalidURL
    ELSE LET hasPort == Len(s) >= 5 /\ s[5] \in PortToks
             rest == SubSeq(s, IF hasPort THEN 6 ELSE 5, Len(s))
             q == firstIn(rest, 1, {"?"})
             h == firstIn(rest, 1, {"#"})
             pEnd == IF q # 0 /\ (h = 0 \/ q < h) THEN q - 1
                     ELSE IF h # 0 THEN h - 1 ELSE Len(rest)
             path == SubSeq(rest, 1, pEnd)
         IN  IF path # <<>> /\ path[1] # "/" THEN InvalidURL
             ELSE [ok |-> TRUE,
                   protocol |-> <<s[1]>>,
                   hostname |-> <<s[4]>>,
                   port |-> IF hasPort THEN <<s[5]>> ELSE <<>>,
                   pathname |-> IF path = <<>> THEN <<"/">> ELSE path,
                   search |-> IF q # 0 /\ (h = 0 \/ q < h)
                              THEN SubSeq(rest, q, IF h # 0 THEN h - 1 ELSE Len(rest))
                              ELSE <<>>,
                   hash |-> IF h # 0 THEN SubSeq(rest, h, Len(rest)) ELSE <<>>]

\* URL.host: the hostname with the port
urlHost(u) == u.hostname \o u.port

\* URL.toString()
urlToString(u) == u.protocol \o <<"/", "/">> \o urlHost(u) \o u.pathname \o u.search \o u.hash

-----------------------------------------------------------------------------
(* URL translator *)

\* a token that begins with the characters "http"
TokStartsHttp(t) == t \in SchemeToks \cup {"httpdocs"}

startsWithHttp(s) == Len(s) >= 1 /\ TokStartsHttp(s[1])

isAbsoluteHttp(s) == startsWith(s, <<"http:", "/", "/">>) \/ startsWith(s, <<"https:", "/", "/">>)

\* UrlRewriter.rewriteUrl
UrlRewriter_rewriteUrl(u, c) ==
    IF u = <<>> \/ startsWith(u, <<"data:">>) \/ startsWith(u, <<"javascript:">>)
         \/ startsWith(u, <<"#">>)
    THEN u
    ELSE IF startsWith(u, <<"/">>)
    THEN c.proxyBaseUrl \o <<"/", "proxy", "/">> \o c.targetDomain \o u
    ELSE IF startsWith(u, <<"/", "/">>)
    THEN LET domain == split(substring(u, 2), "/")[1]
         IN  IF domain = <<>> THEN u
             ELSE c.proxyBaseUrl \o <<"/", "proxy", "/">> \o domain
                      \o substring(u, 2 + Len(domain))
    ELSE IF isAbsoluteHttp(u)
    THEN LET urlObj == NewURL(u)
         IN  IF ~urlObj.ok THEN u
             ELSE c.proxyBaseUrl \o <<"/", "proxy", "/">> \o urlObj.hostname
                      \o urlObj.pathname \o urlObj.search \o urlObj.hash
    ELSE IF ~startsWithHttp(u) /\ ~startsWith(u, <<"/">>)
    THEN LET basePath == IF endsWith(c.targetPath, <<"/">>) THEN c.targetPath
                         ELSE c.targetPath \o <<"/">>
         IN  c.proxyBaseUrl \o <<"/", "proxy", "/">> \o c.targetDomain \o basePath \o u
    ELSE u

\* 'www.' + TARGET_HOST
wwwOf(host) == IF host = <<"nouns.com">> THEN <<"www.nouns.com">> ELSE <<"www.">> \o host

\* URLRewriter.shouldRewrite of the client script
URLRewriter_shouldRewrite(u) ==
    /\ u # <<>>
    /\ ~startsWith(u, <<"data:">>)
    /\ ~startsWith(u, <<"blob:">>)
    /\ ~startsWith(u, <<"javascript:">>)
    /\ ~startsWith(u, <<"mailto:">>)
    /\ ~startsWith(u, <<"tel:">>)
    /\ ~includes(u, <<"/", "proxy", "/">>)

\* URLRewriter.rewriteUrl of the client script on the page
\* {proxyBaseUrl}/proxy/{targetDomain}{targetPath}: PROXY_BASE_URL is the origin of
\* the page, TARGET_HOST the second segment of its path. A URL that is not absolute
\* resolves under the page, whose path starts with /proxy/.
URLRewriter_rewriteUrl(u, c) ==
    LET PROXY_PREFIX == c.proxyBaseUrl \o <<"/", "proxy", "/">> \o c.targetDomain
        u2 == NewURL(u)
    IN  IF ~URLRewriter_shouldRewrite(u) THEN u
        ELSE IF startsWith(u, <<"/">>) /\ ~startsWith(u, <<"/", "/">>)
        THEN PROXY_PREFIX \o u
        ELSE IF startsWith(u, <<"/", "/">>)
        THEN LET pr == NewURL(<<"https:">> \o u)
             IN  IF ~pr.ok THEN u
                 ELSE c.proxyBaseUrl \o <<"/", "proxy", "/">> \o pr.hostname
                          \o pr.pathname \o pr.search \o pr.hash
        ELSE IF ~u2.ok THEN u
        ELSE IF startsWith(u2.pathname, <<"/", "proxy", "/">>) THEN u
        ELSE IF \/ u2.hostname = c.targetDomain
                \/ u2.hostname = wwwOf(c.targetDomain)
                \/ u2.hostname = NewURL(c.proxyBaseUrl).hostname
        THEN PROXY_PREFIX \o u2.pathname \o u2.search \o u2.hash
        ELSE u

\* ContentProcessor.rewriteUrl (the cheerio-based processor)
ContentProcessor_rewriteUrl(u, c) ==
    IF isAbsoluteHttp(u)
    THEN LET urlObj == NewURL(u)
         IN  IF ~urlObj.ok THEN u
             ELSE c.proxyBaseUrl \o <<"/", "proxy", "/">> \o urlHost(urlObj)
                      \o urlObj.pathname \o urlObj.search \o urlObj.hash
    ELSE IF startsWith(u, <<"/", "/">>)
    THEN LET urlObj == NewURL(<<"https:">> \o u)
         IN  IF ~urlObj.ok THEN u
             ELSE c.proxyBaseUrl \o <<"/", "proxy", "/">> \o urlHost(urlObj)
                      \o urlObj.pathname \o urlObj.search \o urlObj.hash
    ELSE u

rewriteUrl(i, u, c) ==
    IF i = "UrlRewriter" THEN UrlRewriter_rewriteUrl(u, c)
    ELSE ContentProcessor_rewriteUrl(u, c)

-----------------------------------------------------------------------------
(* Target extraction from the proxied request path *)

\* ProxyServer.extractTargetUrl; req = [path, url]; None stands for null
\* a target taken from what follows /proxy/ without any check
extractUnchecked(req) == <<"https:", "/", "/">> \o SubSeq(req.path, 4, Len(req.path))

\* ProxyServer.extractTargetUrl; None stands for null
extractTargetUrl(req) ==
    LET pathParts == split(req.path, "/")
    IN  IF Len(pathParts) < 3 \/ pathParts[2] # <<"proxy">> THEN None
        ELSE
        LET targetDomain == pathParts[3]
            remainingPath == join(slice(pathParts, 3), "/")
            base == IF isAbsoluteHttp(targetDomain) THEN targetDomain
                    ELSE IF includes(targetDomain, <<"localhost">>)
                            \/ includes(targetDomain, <<"127.0.0.1">>)
                    THEN <<"http:", "/", "/">> \o targetDomain
                    ELSE <<"https:", "/", "/">> \o targetDomain
            withPath == IF remainingPath # <<>> THEN base \o <<"/">> \o remainingPath
                        ELSE base
            redirected == IF withPath = <<"https:", "/", "/", "nouns.com">>
                             \/ withPath = <<"https:", "/", "/", "nouns.com", "/">>
                          THEN <<"https:", "/", "/", "www.nouns.com", "/">>
                          ELSE withPath
            targetUrl == IF includes(req.url, <<"?">>)
                         THEN redirected \o <<"?">> \o split(req.url, "?")[2]
                         ELSE redirected
        IN  IF targetDomain = <<>> THEN None
            ELSE IF NewURL(targetUrl).ok THEN targetUrl
            ELSE None

NoTarget == [ok |-> FALSE, host |-> <<>>, path |-> <<>>]

\* ProxyServer.createProxyHandler: the target host and path the handler derives
handlerTarget(req) ==
    LET targetUrl == extractTargetUrl(req)
        targetUrlObj == NewURL(targetUrl)
    IN  IF targetUrl = None THEN NoTarget
        ELSE [ok |-> TRUE, host |-> urlHost(targetUrlObj),
              path |-> targetUrlObj.pathname \o targetUrlObj.search]

\* the request Express sees when the browser fetches a proxied URL:
\* req.path is the path, req.url the path with the query; the hash is not sent
requestFor(proxied) ==
    LET u == NewURL(proxied)
    IN  [path |-> u.pathname, url |-> u.pathname \o u.search]

-----------------------------------------------------------------------------
(* More string primitives: trimming, whitespace splitting, case folding *)

\* String.prototype.trim: whitespace is the token " "
RECURSIVE trimStart(_)
trimStart(s) == IF s # <<>> /\ s[1] = " " THEN trimStart(Tail(s)) ELSE s

RECURSIVE trimEnd(_)
trimEnd(s) == IF s # <<>> /\ s[Len(s)] = " " THEN trimEnd(SubSeq(s, 1, Len(s) - 1)) ELSE s

trim(s) == trimEnd(trimStart(s))

\* String.prototype.split(/\s+/)
RECURSIVE splitWs(_)
splitWs(s) ==
    LET i == firstIn(s, 1, {" "})
    IN  IF i = 0 THEN <<s>>
        ELSE <<SubSeq(s, 1, i - 1)>> \o splitWs(trimStart(SubSeq(s, i, Len(s))))

\* String.prototype.toLowerCase, token by token
lowerTok(t) ==
    CASE t = "Frame-Ancestors" -> "frame-ancestors"
      [] t = "Domain" -> "domain"
      [] t = "Path" -> "path"
      [] t = "Expires" -> "expires"
      [] t = "Max-Age" -> "max-age"
      [] t = "Secure" -> "secure"
      [] t = "HttpOnly" -> "httponly"
      [] t = "SameSite" -> "samesite"
      [] t = "XMLHttpRequest" -> "xmlhttprequest"
      [] t = "jQuery.ajax" -> "jquery.ajax"
      [] t = "URL" -> "url"
      [] t = "Text/HTML" -> "text/html"
      [] OTHER -> t

toLowerCase(s) == [i \in 1..Len(s) |-> lowerTok(s[i])]

\* Array.prototype.filter(Boolean) on an array of strings
RECURSIVE filterNonEmpty(_)
filterNonEmpty(parts) ==
    IF parts = <<>> THEN <<>>
    ELSE IF parts[1] = <<>> THEN filterNonEmpty(Tail(parts))
    ELSE <<parts[1]>> \o filterNonEmpty(Tail(parts))

mapTrim(parts) == [i \in 1..Len(parts) |-> trim(parts[i])]

-----------------------------------------------------------------------------
(* Content-Security-Policy parsing and rebuilding (HeaderManipulator) *)

\* directives[name] = values on a JavaScript object kept as an ordered list of
\* [name, values]: an existing key keeps its place, a new key is appended
setDirective(directives, name, values) ==
    IF \E i \in 1..Len(directives) : directives[i].name = name
    THEN [i \in 1..Len(directives) |->
            IF directives[i].name = name THEN [name |-> name, values |-> values]
            ELSE directives[i]]
    ELSE Append(directives, [name |-> name, values |-> values])

RECURSIVE parseCSPParts(_, _)
parseCSPParts(parts, directives) ==
    IF parts = <<>> THEN directives
    ELSE LET trimmed == trim(parts[1])
             words == splitWs(trimmed)
             name == words[1]
             values == Tail(words)
         IN  parseCSPParts(Tail(parts),
                 IF trimmed # <<>> /\ name # <<>> /\ Len(values) > 0
                 THEN setDirective(directives, toLowerCase(name), values)
                 ELSE directives)

\* HeaderManipulator.parseCSPDirectives
parseCSPDirectives(cspHeader) == parseCSPParts(split(cspHeader, ";"), <<>>)

\* delete directives[name]
deleteDirective(directives, name) ==
    LET keep == {i \in 1..Len(directives) : directives[i].name # name}
        F[i \in 0..Len(directives)] ==
            IF i = 0 THEN <<>>
            ELSE IF i \in keep THEN Append(F[i - 1], directives[i]) ELSE F[i - 1]
    IN  F[Len(directives)]

\* HeaderManipulator.buildCSPDirectives
buildCSPDirectives(directives) ==
    LET F[i \in 0..Len(directives)] ==
            IF i = 0 THEN <<>>
            ELSE (IF i = 1 THEN <<>> ELSE F[i - 1] \o <<";", " ">>)
                    \o directives[i].name \o <<" ">> \o join(directives[i].values, " ")
    IN  F[Len(directives)]

\* a rebuild that leaves the parsed directives as they are
keepAllDirectives(directives) == directives

\* the frame-ancestors removal of overrideCSPFrameAncestors
removeFrameAncestors(directives) == deleteDirective(directives, <<"frame-ancestors">>)

\* HeaderManipulator.overrideCSPFrameAncestors: the new value of the response's
\* Content-Security-Policy header (None: the header is left as it was)
overrideCSPFrameAncestors(cspHeader) ==
    IF cspHeader = None \/ cspHeader = <<>> THEN None
    ELSE buildCSPDirectives(removeFrameAncestors(parseCSPDirectives(cspHeader)))

-----------------------------------------------------------------------------
(* CookieManager: the process-wide cookie table *)

\* a JavaScript Map kept as an ordered list of [key, val] entries
mapHas(m, k) == \E i \in 1..Len(m) : m[i].key = k

mapGet(m, k) == m[CHOOSE i \in 1..Len(m) : m[i].key = k].val

\* Map.prototype.set: an existing key keeps its place and takes the new value
mapSet(m, k, v) ==
    IF mapHas(m, k)
    THEN [i \in 1..Len(m) |-> IF m[i].key = k THEN [key |-> k, val |-> v] ELSE m[i]]
    ELSE Append(m, [key |-> k, val |-> v])

AttrKeys == {<<"domain">>, <<"path">>, <<"expires">>, <<"max-age">>, <<"secure">>,
             <<"httponly">>, <<"samesite">>}

NoAttrs == [k \in AttrKeys |-> None]

NoCookie == [ok |-> FALSE, name |-> <<>>, value |-> <<>>, attrs |-> NoAttrs]

\* the attribute loop of parseCookie
RECURSIVE parseCookieAttrs(_, _)
parseCookieAttrs(parts, attrs) ==
    IF parts = <<>> THEN attrs
    ELSE LET part == parts[1]
             kv == split(part, "=")
             key == IF includes(part, <<"=">>) THEN toLowerCase(trim(kv[1]))
                    ELSE toLowerCase(part)
             val == IF includes(part, <<"=">>) THEN trim(kv[2]) ELSE <<"true">>
             stored == /\ part # <<>>
                       /\ includes(part, <<"=">>) => (kv[1] # <<>> /\ kv[2] # <<>>)
                       /\ key \in AttrKeys
         IN  parseCookieAttrs(Tail(parts),
                 IF stored THEN [attrs EXCEPT ![key] = val] ELSE attrs)

\* CookieManager.parseCookie; ok = FALSE stands for null
parseCookie(cookie) ==
    LET parts == mapTrim(split(cookie, ";"))
        nameValue == parts[1]
        nv == split(nameValue, "=")
    IN  IF nameValue = <<>> \/ ~includes(nameValue, <<"=">>) THEN NoCookie
        ELSE IF nv[1] = <<>> \/ nv[2] = <<>> THEN NoCookie
        ELSE [ok |-> TRUE, name |-> trim(nv[1]), value |-> trim(nv[2]),
              attrs |-> parseCookieAttrs(Tail(parts), NoAttrs)]

\* CookieManager.createMappedCookie
createMappedCookie(c, proxyDomain) ==
    LET a == c.attrs
        parts ==
            <<c.name \o <<"=">> \o c.value>>
            \o <<<<"Domain", "=">> \o proxyDomain>>
            \o <<<<"Path", "=">> \o (IF a[<<"path">>] # None THEN a[<<"path">>] ELSE <<"/">>)>>
            \o (IF a[<<"expires">>] # None
                THEN <<<<"Expires", "=">> \o a[<<"expires">>]>> ELSE <<>>)
            \o (IF a[<<"max-age">>] # None
                THEN <<<<"Max-Age", "=">> \o a[<<"max-age">>]>> ELSE <<>>)
            \o (IF a[<<"secure">>] = <<"true">> THEN <<<<"Secure">>>> ELSE <<>>)
            \o (IF a[<<"httponly">>] = <<"true">> THEN <<<<"HttpOnly">>>> ELSE <<>>)
            \o (IF a[<<"samesite">>] # None
                THEN <<<<"SameSite", "=">> \o a[<<"samesite">>]>> ELSE <<>>)
        F[i \in 0..Len(parts)] ==
            IF i = 0 THEN <<>>
            ELSE (IF i = 1 THEN <<>> ELSE F[i - 1] \o <<";", " ">>) \o parts[i]
    IN  F[Len(parts)]

OriginDomains == {<<"example.com">>, <<"other.com">>}

NoMapping == [exists |-> FALSE, cookies |-> <<>>]

EmptyCookieTable == [d \in OriginDomains |-> NoMapping]

\* the value a cookie leaves in the table: mapping.cookies.set(name, name=value)
recordCookie(cookies, parsed) ==
    mapSet(cookies, parsed.name, parsed.name \o <<"=">> \o parsed.value)

\* the forEach of processResponseCookies: [cookies, mapped]
RECURSIVE processCookieList(_, _, _, _)
processCookieList(originalCookies, cookies, mapped, proxyDomain) ==
    IF originalCookies = <<>> THEN [cookies |-> cookies, mapped |-> mapped]
    ELSE LET parsed == parseCookie(originalCookies[1])
         IN  IF parsed.ok
             THEN processCookieList(Tail(originalCookies), recordCookie(cookies, parsed),
                      Append(mapped, createMappedCookie(parsed, proxyDomain)), proxyDomain)
             ELSE processCookieList(Tail(originalCookies), cookies, mapped, proxyDomain)

\* CookieManager.processResponseCookies: [table, mapped]
processResponseCookies(table, originalCookies, originalDomain, proxyDomain) ==
    LET r == processCookieList(originalCookies, table[originalDomain].cookies, <<>>,
                 proxyDomain)
    IN  [table |-> [table EXCEPT ![originalDomain] =
                        [exists |-> TRUE, cookies |-> r.cookies]],
         mapped |-> r.mapped]

\* the value forwarded for one inbound pair whose name the table knows
mappedPair(cookies, name) == mapGet(cookies, name)

\* the forEach of processRequestCookies
RECURSIVE mapRequestPairs(_, _)
mapRequestPairs(cookiePairs, cookies) ==
    IF cookiePairs = <<>> THEN <<>>
    ELSE LET name == split(cookiePairs[1], "=")[1]
         IN  (IF name # <<>> /\ mapHas(cookies, name)
              THEN <<mappedPair(cookies, name)>> ELSE <<>>)
             \o mapRequestPairs(Tail(cookiePairs), cookies)

\* Array.prototype.join('; ')
RECURSIVE joinSemi(_)
joinSemi(parts) ==
    IF parts = <<>> THEN <<>>
    ELSE IF Len(parts) = 1 THEN parts[1]
    ELSE parts[1] \o <<";", " ">> \o joinSemi(Tail(parts))

\* a cookie manager that answers from the jar of whichever origin has one
processRequestCookiesAnyJar(table, requestCookies, originalDomain) ==
    LET known == {d \in OriginDomains : table[d].exists}
    IN  IF known = {} THEN requestCookies
        ELSE joinSemi(mapRequestPairs(filterNonEmpty(mapTrim(split(requestCookies, ";"))),
                                      table[CHOOSE d \in known : TRUE].cookies))

\* CookieManager.processRequestCookies
processRequestCookies(table, requestCookies, originalDomain) ==
    IF ~table[originalDomain].exists THEN requestCookies
    ELSE joinSemi(mapRequestPairs(filterNonEmpty(mapTrim(split(requestCookies, ";"))),
                                  table[originalDomain].cookies))

\* ProxyServer.makeDirectProxyRequest: the Cookie header of the origin request.
\* options.headers spreads req.headers (with the inbound cookie header) and then
\* takes the processed cookies when they are a non-empty string.
upstreamCookieHeader(table, inboundCookie, originalDomain) ==
    LET requestCookies == IF inboundCookie = None THEN <<>> ELSE inboundCookie
        processedCookies == processRequestCookies(table, requestCookies, originalDomain)
    IN  IF processedCookies # <<>> THEN processedCookies ELSE inboundCookie

-----------------------------------------------------------------------------
(* Response headers *)

\* header names are case-insensitive in Node and Express: they are kept lower-case
HeaderNames ==
    {"x-frame-options", "content-security-policy", "content-security-policy-report-only",
     "content-type", "content-encoding", "vary", "location",
     "access-control-allow-origin", "access-control-allow-methods",
     "access-control-allow-headers", "access-control-allow-credentials",
     "access-control-expose-headers", "x-proxy-version"}

NoHeaders == [h \in HeaderNames |-> None]

setHeader(hdrs, name, value) == [hdrs EXCEPT ![name] = value]

removeHeader(hdrs, name) == [hdrs EXCEPT ![name] = None]

\* HeaderManipulator.removeAntiFramingHeaders, on the response under construction
removeAntiFramingHeaders(headers) == removeHeader(headers, "x-frame-options")

\* HeaderManipulator.removeAntiFramingHeaders, on proxyRes.headers
deleteUpstreamFrameOptions(proxyHeaders) == removeHeader(proxyHeaders, "x-frame-options")

\* HeaderManipulator.addCORSHeaders
addCORSHeaders(headers) ==
    [headers EXCEPT
        !["access-control-allow-origin"] = <<"*">>,
        !["access-control-allow-methods"] = <<"GET, POST, PUT, DELETE, OPTIONS, PATCH">>,
        !["access-control-allow-headers"] =
            <<"Content-Type, Authorization, X-Requested-With, Accept, Origin">>,
        !["access-control-allow-credentials"] = <<"true">>]

\* HeaderManipulator.manipulateResponseHeaders: the headers of res afterwards
manipulateResponseHeaders(proxyHeaders, headers) ==
    LET noXfo == removeAntiFramingHeaders(headers)
        newCSP == overrideCSPFrameAncestors(proxyHeaders["content-security-policy"])
        withCsp == IF newCSP = None THEN noXfo
                   ELSE setHeader(noXfo, "content-security-policy", newCSP)
    IN  addCORSHeaders(withCsp)

\* the file extension the content-type repair looks at: the last token of the path
pathExtension(targetPath) ==
    LET last == IF targetPath = <<>> THEN "" ELSE targetPath[Len(targetPath)]
    IN  CASE last = "app.js" -> "js"
          [] last = "style.css" -> "css"
          [] last = "logo.png" -> "png"
          [] OTHER -> ""

isHtmlType(value) == value # None /\ includes(value, <<"text/html">>)

\* ProxyServer.makeDirectProxyRequest: MIME repair of a content-type header
fixContentType(value, targetPath) ==
    IF isHtmlType(value) /\ pathExtension(targetPath) = "js"
    THEN <<"application/javascript", ";", " ", "charset=utf-8">>
    ELSE IF isHtmlType(value) /\ pathExtension(targetPath) = "css"
    THEN <<"text/css", ";", " ", "charset=utf-8">>
    ELSE IF isHtmlType(value) /\ pathExtension(targetPath) = "png"
    THEN <<"image/png">>
    ELSE value

\* the removal of the anti-framing headers in makeDirectProxyRequest
removeAntiFraming(headers) ==
    [headers EXCEPT !["x-frame-options"] = None,
                    !["content-security-policy"] = None,
                    !["content-security-policy-report-only"] = None]

\* ProxyServer.makeDirectProxyRequest (hybrid): the headers set on res when the
\* origin's headers arrive, before the body is handled (content-length is not copied)
copyResponseHeaders(proxyHeaders, headers, targetPath) ==
    LET copied == [h \in HeaderNames |->
                     IF proxyHeaders[h] = None THEN headers[h]
                     ELSE IF h = "content-type" THEN fixContentType(proxyHeaders[h], targetPath)
                     ELSE proxyHeaders[h]]
        framed == removeAntiFraming(copied)
    IN  [framed EXCEPT
            !["access-control-allow-origin"] = <<"*">>,
            !["access-control-allow-methods"] = <<"GET, POST, PUT, DELETE, OPTIONS, HEAD">>,
            !["access-control-allow-headers"] =
                <<"Content-Type, Authorization, X-Requested-With, Accept, Origin, User-Agent, Referer, Cookie, Cache-Control">>,
            !["access-control-allow-credentials"] = <<"true">>,
            !["access-control-expose-headers"] =
                <<"Content-Length, Content-Type, Date, Server, X-Proxy-Version">>,
            !["x-proxy-version"] = <<"hybrid-with-injection-v1">>]

\* ProxyServer.makeDirectProxyRequest (streaming-decompression): as above, and the
\* compression header is dropped for every response
copyResponseHeadersStreaming(proxyHeaders, headers) ==
    LET copied == [h \in HeaderNames |-> IF proxyHeaders[h] = None THEN headers[h] ELSE proxyHeaders[h]]
        framed == removeAntiFraming(copied)
    IN  [framed EXCEPT
            !["content-encoding"] = None,
            !["access-control-allow-origin"] = <<"*">>,
            !["access-control-allow-methods"] = <<"GET, POST, PUT, DELETE, OPTIONS">>,
            !["access-control-allow-headers"] =
                <<"Content-Type, Authorization, X-Requested-With">>,
            !["x-proxy-version"] = <<"streaming-decompression-v1">>]

\* HeaderManipulator.mapCookieDomain
mapCookieDomain(cookie, host) ==
    LET parts == mapTrim(split(cookie, ";"))
        cookieNameValue == parts[1]
        attributes == Tail(parts)
        mappedAttributes ==
            [i \in 1..Len(attributes) |->
                IF startsWith(toLowerCase(attributes[i]), <<"domain", "=">>)
                THEN <<"Domain", "=">> \o host
                ELSE attributes[i]]
    IN  joinSemi(<<cookieNameValue>> \o mappedAttributes)

\* HeaderManipulator.mapCookieDomains
mapCookieDomains(setCookieHeaders, host) ==
    [i \in 1..Len(setCookieHeaders) |-> mapCookieDomain(setCookieHeaders[i], host)]

ProxyHost == <<"localhost", ":3000">>

-----------------------------------------------------------------------------
(* Regular expressions of the content rewriters, matched over tokens *)


Quotes == {"'", "\""}

NoMatch == [ok |-> FALSE, end |-> 0, cap |-> <<>>]

\* \s* : the first position at or after i that holds no blank
RECURSIVE skipWs(_, _)
skipWs(s, i) == IF i <= Len(s) /\ s[i] = " " THEN skipWs(s, i + 1) ELSE i

\* [^...]+ : the last position of the run that starts at i and avoids the tokens of T
RECURSIVE runEnd(_, _, _)
runEnd(s, i, T) == IF i <= Len(s) /\ s[i] \notin T THEN runEnd(s, i + 1, T) ELSE i - 1

\* name\s*=\s*["']([^"']+)["'] at position j of a tag that closes at position close
attrAt(s, j, names, close) ==
    With(skipWs(s, j + 1), LAMBDA k1 :
    With(skipWs(s, k1 + 1), LAMBDA k2 :
    With(runEnd(s, k2 + 1, Quotes) + 1, LAMBDA e :
        IF /\ lowerTok(s[j]) \in names
           /\ k1 < close /\ s[k1] = "="
           /\ k2 < close /\ s[k2] \in Quotes
           /\ e > k2 + 1 /\ e < close
        THEN [ok |-> TRUE, end |-> close, cap |-> SubSeq(s, k2 + 1, e - 1)]
        ELSE NoMatch)))

\* <tag\s+[^>]*name\s*=\s*["']([^"']+)["'][^>]*> at position i of s: the greedy
\* [^>]* settles on the last attribute of the tag whose name ends in the given name
matchTag(s, i, tag, names) ==
    IF ~(i + 2 <= Len(s) /\ lowerTok(s[i]) = tag /\ s[i + 1] = " ") THEN NoMatch
    ELSE With(firstIn(s, i + 2, {">"}), LAMBDA close :
         With({j \in (i + 2)..(close - 1) : attrAt(s, j, names, close).ok}, LAMBDA hits :
             IF close # 0 /\ hits # {}
             THEN attrAt(s, CHOOSE j \in hits : \A h \in hits : h <= j, names, close)
             ELSE NoMatch))

\* url\s*\(\s*["']?([^"')]+)["']?\s*\) at position i of s
matchCssUrl(s, i) ==
    IF lowerTok(s[i]) # "url" THEN NoMatch
    ELSE With(skipWs(s, i + 1), LAMBDA k :
         With(skipWs(s, k + 1), LAMBDA k2 :
         With(IF k2 <= Len(s) /\ s[k2] \in Quotes THEN k2 + 1 ELSE k2, LAMBDA from :
         With(runEnd(s, from, Quotes \cup {")"}), LAMBDA to :
         With(skipWs(s, IF to + 1 <= Len(s) /\ s[to + 1] \in Quotes THEN to + 2
                        ELSE to + 1), LAMBDA close :
             IF /\ k <= Len(s) /\ s[k] = "("
                /\ to >= from
                /\ close <= Len(s) /\ s[close] = ")"
             THEN [ok |-> TRUE, end |-> close, cap |-> SubSeq(s, from, to)]
             ELSE NoMatch)))))

\* url\(['"]?([^'")]+)['"]?\) at position i of s
matchCssUrlStrict(s, i) ==
    IF ~(i + 1 <= Len(s) /\ s[i] = "url" /\ s[i + 1] = "(") THEN NoMatch
    ELSE With(IF i + 2 <= Len(s) /\ s[i + 2] \in Quotes THEN i + 3 ELSE i + 2, LAMBDA from :
         With(runEnd(s, from, Quotes \cup {")"}), LAMBDA to :
         With(IF to + 1 <= Len(s) /\ s[to + 1] \in Quotes THEN to + 2 ELSE to + 1,
              LAMBDA close :
             IF to >= from /\ close <= Len(s) /\ s[close] = ")"
             THEN [ok |-> TRUE, end |-> close, cap |-> SubSeq(s, from, to)]
             ELSE NoMatch)))

\* callee\s*\(\s*["']([^"']+)["'] at position i of s
matchCall(s, i, callees) ==
    IF lowerTok(s[i]) \notin callees THEN NoMatch
    ELSE With(skipWs(s, i + 1), LAMBDA k :
         With(skipWs(s, k + 1), LAMBDA k2 :
         With(runEnd(s, k2 + 1, Quotes) + 1, LAMBDA e :
             IF /\ k <= Len(s) /\ s[k] = "("
                /\ k2 <= Len(s) /\ s[k2] \in Quotes
                /\ e > k2 + 1 /\ e <= Len(s)
             THEN [ok |-> TRUE, end |-> e, cap |-> SubSeq(s, k2 + 1, e - 1)]
             ELSE NoMatch)))

TagPatterns ==
    [base |-> {"href", "data-href"}, link |-> {"href", "data-href"},
     script |-> {"src", "data-src"}, img |-> {"src", "data-src"},
     iframe |-> {"src", "data-src"}, form |-> {"action"}, a |-> {"href", "data-href"}]

TagOpen ==
    [base |-> "<base", link |-> "<link", script |-> "<script", img |-> "<img",
     iframe |-> "<iframe", form |-> "<form", a |-> "<a"]

\* the match of one of the rewriters' patterns at position i of s
matchAt(kind, s, i) ==
    CASE kind \in DOMAIN TagPatterns -> matchTag(s, i, TagOpen[kind], TagPatterns[kind])
      [] kind = "cssUrl" -> matchCssUrl(s, i)
      [] kind = "cssUrlStrict" -> matchCssUrlStrict(s, i)
      [] kind = "inlineJs" ->
            matchCall(s, i, {"fetch", "xmlhttprequest", "axios", "jquery.ajax"})
      [] kind = "fetch" -> matchCall(s, i, {"fetch"})
      [] kind = "open" -> matchCall(s, i, {".open"})

\* the callback of a pattern: match.replace(url, rewrittenUrl) in the regex
\* rewriters, `url('${rewrittenUrl}')` in the cheerio-based one
replacement(kind, match, cap, c) ==
    IF kind = "cssUrlStrict"
    THEN <<"url", "(", "'">> \o ContentProcessor_rewriteUrl(cap, c) \o <<"'", ")">>
    ELSE replaceFirst(match, cap, UrlRewriter_rewriteUrl(cap, c))

\* the scan of a global pattern over s: matches are taken left to right and the
\* search resumes after each match
scanAll(kind, s, c) ==
    LET R[i \in 1..(Len(s) + 1)] ==
            IF i > Len(s) THEN <<>>
            ELSE With(matchAt(kind, s, i), LAMBDA m :
                     IF m.ok
                     THEN replacement(kind, SubSeq(s, i, m.end), m.cap, c) \o R[m.end + 1]
                     ELSE <<s[i]>> \o R[i + 1])
    IN  R[1]

\* String.prototype.replace with a global pattern and a callback
replaceAll(kind, s, c) == With(s, LAMBDA text : scanAll(kind, text, c))

\* the passes of UrlRewriter.rewriteHtmlContent, in the order of the code
HtmlPasses == <<"base", "link", "script", "img", "iframe", "form", "a", "cssUrl", "inlineJs">>

\* UrlRewriter.rewriteHtmlContent: each pass works on the result of the one before
rewriteHtmlContent(html, c) ==
    LET rewrittenHtml[n \in 0..Len(HtmlPasses)] ==
            IF n = 0 THEN html ELSE replaceAll(HtmlPasses[n], rewrittenHtml[n - 1], c)
    IN  rewrittenHtml[Len(HtmlPasses)]

\* ContentProcessor.rewriteCssUrls (the cheerio-based processor)
rewriteCssUrls(css, c) == replaceAll("cssUrlStrict", css, c)

-----------------------------------------------------------------------------
(* JSON.parse and JSON.stringify over tokens *)

JsonLiterals == {"1", "true", "false", "null"}

JsonError == [ok |-> FALSE, val |-> [t |-> "lit", v |-> <<>>], next |-> 0]

RECURSIVE jsonValue(_, _), jsonElements(_, _, _), jsonMembers(_, _, _)

\* the value that starts at or after position i: [ok, val, next]; ok = FALSE
\* stands for the SyntaxError
jsonValue(s, i) ==
    With(skipWs(s, i), LAMBDA k :
    With(firstIn(s, k + 1, {"\""}), LAMBDA e :
    With(skipWs(s, k + 1), LAMBDA k2 :
        IF k > Len(s) THEN JsonError
        ELSE IF s[k] = "\""
        THEN IF e = 0 THEN JsonError
             ELSE [ok |-> TRUE, val |-> [t |-> "str", v |-> SubSeq(s, k + 1, e - 1)],
                   next |-> e + 1]
        ELSE IF s[k] \in JsonLiterals
        THEN [ok |-> TRUE, val |-> [t |-> "lit", v |-> <<s[k]>>], next |-> k + 1]
        ELSE IF s[k] = "["
        THEN IF k2 <= Len(s) /\ s[k2] = "]"
             THEN [ok |-> TRUE, val |-> [t |-> "arr", v |-> <<>>], next |-> k2 + 1]
             ELSE jsonElements(s, k + 1, <<>>)
        ELSE IF s[k] = "{"
        THEN IF k2 <= Len(s) /\ s[k2] = "}"
             THEN [ok |-> TRUE, val |-> [t |-> "obj", v |-> <<>>], next |-> k2 + 1]
             ELSE jsonMembers(s, k + 1, <<>>)
        ELSE JsonError)))

jsonElements(s, i, acc) ==
    With(jsonValue(s, i), LAMBDA item :
    With(skipWs(s, IF item.ok THEN item.next ELSE i), LAMBDA k :
    With(Append(acc, item.val), LAMBDA items :
        IF ~item.ok \/ k > Len(s) THEN JsonError
        ELSE IF s[k] = "," THEN jsonElements(s, k + 1, items)
        ELSE IF s[k] = "]"
        THEN [ok |-> TRUE, val |-> [t |-> "arr", v |-> items], next |-> k + 1]
        ELSE JsonError)))

jsonMembers(s, i, acc) ==
    With(skipWs(s, i), LAMBDA k :
    With(firstIn(s, k + 1, {"\""}), LAMBDA e :
    With(skipWs(s, e + 1), LAMBDA colon :
        IF k > Len(s) \/ s[k] # "\"" \/ e = 0 THEN JsonError
        ELSE IF colon > Len(s) \/ s[colon] # ":" THEN JsonError
        ELSE With(jsonValue(s, colon + 1), LAMBDA item :
             With(skipWs(s, IF item.ok THEN item.next ELSE i), LAMBDA k3 :
             With(Append(acc, [key |-> SubSeq(s, k + 1, e - 1), val |-> item.val]),
                  LAMBDA members :
                 IF ~item.ok \/ k3 > Len(s) THEN JsonError
                 ELSE IF s[k3] = "," THEN jsonMembers(s, k3 + 1, members)
                 ELSE IF s[k3] = "}"
                 THEN [ok |-> TRUE, val |-> [t |-> "obj", v |-> members], next |-> k3 + 1]
                 ELSE JsonError))))))

\* JSON.parse
jsonParse(s) ==
    With(jsonValue(s, 1), LAMBDA r :
        IF r.ok /\ skipWs(s, r.next) > Len(s) THEN r ELSE JsonError)

\* ContentProcessor.looksLikeUrl
looksLikeUrl(str) == isAbsoluteHttp(str) \/ startsWith(str, <<"/">>)

\* result[key] = value on an object literal: the key __proto__ names the accessor of
\* Object.prototype, which sets the prototype or does nothing, and the result gets
\* no property of its own
assignable(member) == member.key # <<"__proto__">>

\* ContentProcessor.rewriteUrlsInObject
RECURSIVE rewriteUrlsInObject(_, _)
rewriteUrlsInObject(value, c) ==
    With(value, LAMBDA obj :
    IF obj.t = "str"
    THEN [obj EXCEPT !.v = IF looksLikeUrl(@) THEN UrlRewriter_rewriteUrl(@, c) ELSE @]
    ELSE IF obj.t = "arr"
    THEN [obj EXCEPT !.v = [i \in 1..Len(@) |-> rewriteUrlsInObject(@[i], c)]]
    ELSE IF obj.t = "obj"
    THEN With(SelectSeq(obj.v, assignable), LAMBDA entries :
         [obj EXCEPT !.v = [i \in 1..Len(entries) |->
                               [key |-> entries[i].key,
                                val |-> rewriteUrlsInObject(entries[i].val, c)]]])
    ELSE obj)

\* JSON.stringify
RECURSIVE jsonStringify(_)
jsonStringify(value) ==
    With(value, LAMBDA val :
    IF val.t = "str" THEN <<"\"">> \o val.v \o <<"\"">>
    ELSE IF val.t = "lit" THEN val.v
    ELSE LET n == Len(val.v)
             item(i) == IF val.t = "arr" THEN jsonStringify(val.v[i])
                        ELSE <<"\"">> \o val.v[i].key \o <<"\"", ":">>
                                \o jsonStringify(val.v[i].val)
             F[i \in 0..n] ==
                 IF i = 0 THEN <<>>
                 ELSE (IF i = 1 THEN <<>> ELSE F[i - 1] \o <<",">>) \o item(i)
         IN  (IF val.t = "arr" THEN <<"[">> ELSE <<"{">>) \o F[n]
                \o (IF val.t = "arr" THEN <<"]">> ELSE <<"}">>))

-----------------------------------------------------------------------------
(* ContentProcessor: the content pipeline *)

Returned(v) == [threw |-> FALSE, value |-> v]

Thrown == [threw |-> TRUE, value |-> <<>>]

\* ContentProcessor.extractMimeType
extractMimeType(contentType) ==
    LET mimeType == toLowerCase(trim(split(contentType, ";")[1]))
    IN  IF contentType = <<>> \/ mimeType = <<>> THEN <<"text/plain">> ELSE mimeType

\* the script element of injectProxyScripts, with the context it embeds
proxyScript(c) ==
    <<"<script>", "proxyBase", "=">> \o c.proxyBaseUrl
        \o <<";", "targetDomain", "=">> \o c.targetDomain \o <<";", "</script>">>

\* ContentProcessor.injectProxyScripts
injectProxyScripts(html, c) ==
    IF includes(html, <<"</head>">>)
    THEN replaceFirst(html, <<"</head>">>, proxyScript(c) \o <<"</head>">>)
    ELSE IF includes(html, <<"<body">>)
    THEN replaceFirst(html, <<"<body">>, proxyScript(c) \o <<"<body">>)
    ELSE proxyScript(c) \o html

\* ContentProcessor.ensureBaseTag
ensureBaseTag(html, c) ==
    LET baseTag == <<"<base", " ", "href", "=", "\"">> \o c.proxyBaseUrl
                      \o <<"/", "proxy", "/">> \o c.targetDomain \o <<"/", "\"", ">">>
    IN  IF includes(html, <<"<base">>) THEN html
        ELSE IF includes(html, <<"<head>">>)
        THEN replaceFirst(html, <<"<head>">>, <<"<head>">> \o baseTag)
        ELSE IF includes(html, <<"<html>">>)
        THEN replaceFirst(html, <<"<html>">>,
                 <<"<html>", "<head>">> \o baseTag \o <<"</head>">>)
        ELSE baseTag \o html

\* ContentProcessor.processHtmlContent
processHtmlContent(html, c) ==
    With(rewriteHtmlContent(html, c), LAMBDA processedHtml :
    With(injectProxyScripts(processedHtml, c), LAMBDA injected :
        Returned(ensureBaseTag(injected, c))))

\* ContentProcessor.processCssContent
processCssContent(css, c) == Returned(replaceAll("cssUrl", css, c))

\* ContentProcessor.processJavaScriptContent
processJavaScriptContent(js, c) ==
    Returned(replaceAll("open", replaceAll("fetch", js, c), c))

\* the try block of processJsonContent: JSON.parse throws a SyntaxError
rewriteJson(json, c) ==
    With(jsonParse(json), LAMBDA data :
        IF data.ok
        THEN With(rewriteUrlsInObject(data.val, c), LAMBDA processedData :
                 Returned(jsonStringify(processedData)))
        ELSE Thrown)

\* a JSON rewriter whose catch clause answers with an empty document
processJsonOrNothing(json, c) ==
    With(rewriteJson(json, c), LAMBDA r : IF r.threw THEN Returned(<<>>) ELSE r)

\* ContentProcessor.processJsonContent: the catch clause answers with the input
processJsonContent(json, c) ==
    With(rewriteJson(json, c), LAMBDA r : IF r.threw THEN Returned(json) ELSE r)

\* ContentProcessor.processContent: [threw, value]; an exception of a rewriter is
\* caught and answered with the original content
processContent(content, contentType, c) ==
    With(extractMimeType(contentType), LAMBDA mimeType :
    With(CASE mimeType = <<"text/html">> -> processHtmlContent(content, c)
           [] mimeType = <<"text/css">> -> processCssContent(content, c)
           [] mimeType \in {<<"application/javascript">>, <<"text/javascript">>} ->
                  processJavaScriptContent(content, c)
           [] mimeType = <<"application/json">> -> processJsonContent(content, c)
           [] OTHER -> Returned(content),
         LAMBDA r : IF r.threw THEN Returned(content) ELSE r))

-----------------------------------------------------------------------------
(* ProxyServer.makeDirectProxyRequest: what the handlers compute *)

\* ProxyServer.isSimpleSite: hostname.replace(/^www\./, '') is on the list
isSimpleSite(hostname) ==
    (IF hostname = <<"www.nouns.com">> THEN <<"nouns.com">> ELSE hostname)
        \in {<<"example.com">>, <<"nouns.world">>, <<"myspace.com">>}

\* new URL(location, base) for a location that is not an absolute URL
resolveUrl(location, base) ==
    IF startsWith(location, <<"/", "/">>) THEN NewURL(base.protocol \o location)
    ELSE IF startsWith(location, <<"/">>)
    THEN NewURL(base.protocol \o <<"/", "/">> \o urlHost(base) \o location)
    ELSE NewURL(base.protocol \o <<"/", "/">> \o urlHost(base) \o <<"/">> \o location)

\* the redirect branch: the Location handed to res.redirect; None stands for the
\* TypeError of new URL(redirectUrl)
redirectLocation(location, base) ==
    LET redirectUrl == IF startsWithHttp(location) THEN location
                       ELSE urlToString(resolveUrl(location, base))
        u == NewURL(redirectUrl)
    IN  IF u.ok THEN <<"/", "proxy", "/">> \o u.hostname \o u.pathname \o u.search
        ELSE None

\* zlib stand-in: a compressed body is a header, the deflated data and a checksum
Framing == [gzip |-> <<"1f8b", "crc32">>, deflate |-> <<"789c", "adler32">>]

Reverse(s) == [i \in 1..Len(s) |-> s[Len(s) + 1 - i]]

compress(encoding, plain) ==
    <<Framing[encoding][1]>> \o Reverse(plain) \o <<Framing[encoding][2]>>

\* zlib.createGunzip / zlib.createInflate over the bytes written to it; ok = FALSE
\* stands for the 'error' event
decompress(encoding, bytes) ==
    IF Len(bytes) >= 2 /\ bytes[1] = Framing[encoding][1]
          /\ bytes[Len(bytes)] = Framing[encoding][2]
    THEN [ok |-> TRUE, plain |-> Reverse(SubSeq(bytes, 2, Len(bytes) - 1))]
    ELSE [ok |-> FALSE, plain |-> <<>>]

isCompressed(contentEncoding) == contentEncoding \in {<<"gzip">>, <<"deflate">>}

\* Buffer.toString('utf8'): bytes that are no UTF-8 become U+FFFD
toStringUtf8(bytes) ==
    [i \in 1..Len(bytes) |->
        IF bytes[i] \in {"1f8b", "crc32", "789c", "adler32"} THEN "U+FFFD" ELSE bytes[i]]

\* Buffer.byteLength(s, 'utf8'): U+FFFD takes three bytes
byteLength(s) == Len(s) + 2 * Cardinality({i \in 1..Len(s) : s[i] = "U+FFFD"})

CLIENT_PROCESSOR_MARKER == "<!-- Website Framing Proxy - Client-Side Processor -->"

getClientProcessorScript ==
    <<"\n", CLIENT_PROCESSOR_MARKER, "\n", "<script>", "client-processor", "</script>", "\n">>

\* data.trim().startsWith('<')
startsWithLt(data) ==
    LET s == trim(data)
    IN  s # <<>> /\ s[1] \in {"<html>", "<head>", "<body>", "<p>", "<script>", "<base",
                              CLIENT_PROCESSOR_MARKER}

\* InjectionMiddleware.injectClientProcessor: what the wrapped res.send hands on
injectClientProcessor(data) ==
    IF ~startsWithLt(data) \/ includes(data, <<CLIENT_PROCESSOR_MARKER>>) THEN data
    ELSE IF includes(data, <<"</body>">>)
    THEN replaceFirst(data, <<"</body>">>, getClientProcessorScript \o <<"</body>">>)
    ELSE IF includes(data, <<"</head>">>)
    THEN replaceFirst(data, <<"</head>">>, getClientProcessorScript \o <<"</head>">>)
    ELSE data \o getClientProcessorScript

\* HTMLInjector.injectClientProcessor: the script is read from client-processor.js
\* next to the module; without the file the html is returned as it came
HTMLInjector_injectClientProcessor(html, readable) ==
    LET injectionScript == <<"\n", CLIENT_PROCESSOR_MARKER, "\n", "<script>", "\n",
                             "client-processor", "\n", "</script>", "\n">>
    IN  IF ~readable THEN html
        ELSE IF includes(html, <<"</body>">>)
        THEN replaceFirst(html, <<"</body>">>, injectionScript \o <<"</body>">>)
        ELSE IF includes(html, <<"</head>">>)
        THEN replaceFirst(html, <<"</head>">>, injectionScript \o <<"</head>">>)
        ELSE html \o injectionScript

\* res.send(data) under /proxy/: the injection wrapper, then Express, which sets
\* Content-Length from the body it sends (over a value set before) and a default
\* Content-Type
sendResponse(status, headers, data) ==
    LET body == injectClientProcessor(data)
    IN  [kind |-> "send", status |-> status,
         headers |-> IF headers["content-type"] # None THEN headers
                     ELSE setHeader(headers, "content-type",
                                    <<"text/html", ";", " ", "charset=utf-8">>),
         length |-> byteLength(body), body |-> body]

\* res.status(status).json({error}): res.json keeps a Content-Type that is set and
\* goes through res.send
jsonResponse(status, headers, error) ==
    LET body == injectClientProcessor(<<"{", "error", ":", error, "}">>)
    IN  [kind |-> "json", status |-> status,
         headers |-> IF headers["content-type"] # None THEN headers
                     ELSE setHeader(headers, "content-type",
                                    <<"application/json", ";", " ", "charset=utf-8">>),
         length |-> byteLength(body), body |-> body]

\* res.status(status).json({error, details})
jsonErrorResponse(status, headers, error, details) ==
    LET body == <<"{", "error", ":", error, ",", "details", ":">> \o details \o <<"}">>
    IN  [jsonResponse(status, headers, error) EXCEPT !.body = body,
                                                     !.length = byteLength(body)]

\* the 'error' listener of proxyReq: what it answers for err.message
requestErrorResponse(v, headers, message) ==
    IF v = "streaming"
    THEN jsonErrorResponse(500, headers, "Proxy request failed", message)
    ELSE IF includes(message, <<"timeout">>)
    THEN jsonErrorResponse(504, headers, "Proxy request timeout",
                           <<"The target server took too long to respond">>)
    ELSE IF includes(message, <<"ECONNREFUSED">>)
    THEN jsonErrorResponse(502, headers, "Connection refused",
                           <<"Unable to connect to target server">>)
    ELSE IF includes(message, <<"ENOTFOUND">>)
    THEN jsonErrorResponse(502, headers, "Host not found",
                           <<"Target hostname could not be resolved">>)
    ELSE jsonErrorResponse(500, headers, "Proxy request failed", message)

\* the 'timeout' listeners of proxyReq in the order they were added: the hybrid
\* handler has on('timeout') and setTimeout, the streaming one setTimeout only
timeoutResponses(v, headers) ==
    IF v = "hybrid"
    THEN <<jsonErrorResponse(504, headers, "Proxy request timeout",
                             <<"The target server took too long to respond">>),
           jsonResponse(504, headers, "Proxy request timeout")>>
    ELSE <<jsonResponse(504, headers, "Proxy request timeout")>>

\* res.redirect(status, url): Location is the url as given, the body names it
redirectResponse(status, headers, to) ==
    [kind |-> "redirect", status |-> status, headers |-> setHeader(headers, "location", to),
     length |-> byteLength(<<"Redirecting to", " ">> \o to),
     body |-> <<"Redirecting to", " ">> \o to]

\* a handler writes a whole response: Express throws ERR_HTTP_HEADERS_SENT when the
\* headers of the response have been sent
writeResponse(o, r) ==
    IF o.headersSent THEN [o EXCEPT !.rejected = @ + 1]
    ELSE [o EXCEPT !.headersSent = TRUE, !.sent = Append(@, r)]

\* if (!res.headersSent) { res.status(...).json(...) }
writeIfUnsent(o, r) == IF o.headersSent THEN o ELSE writeResponse(o, r)

\* proxyRes.pipe(res): a chunk written to res; the first one sends the headers, a
\* chunk written to a response that has ended is refused (write after end)
pipeChunk(o, status, headers, chunk) ==
    IF ~o.headersSent
    THEN [o EXCEPT !.headersSent = TRUE,
                   !.sent = Append(@, [kind |-> "pipe", status |-> status,
                                       headers |-> headers, length |-> -1,
                                       body |-> chunk])]
    ELSE IF o.sent[Len(o.sent)].kind = "pipe"
    THEN [o EXCEPT !.sent[Len(o.sent)].body = @ \o chunk]
    ELSE [o EXCEPT !.rejected = @ + 1]

\* the check of the streaming handlers: the text "is actually HTML"
looksLikeHtml(html) ==
    startsWithLt(html) \/ \E i \in 1..Len(html) : html[i] \in {"<html>", "<!DOCTYPE html>"}

\* ContentProcessor.processHtmlContent (the cheerio-based processor) on a document
\* without URL attributes, style or script elements: cheerio.load completes the
\* document, injectBaseTag and injectProxyScript fill its head
Cheerio_processHtmlContent(html, proxyBaseUrl, targetHost) ==
    LET loaded == IF includes(html, <<"<head>">>) THEN html
                  ELSE <<"<html>", "<head>", "</head>", "<body>">> \o html
                           \o <<"</body>", "</html>">>
        baseTag == <<"<base", " ", "href", "=", "\"">> \o proxyBaseUrl
                       \o <<"/", "proxy", "/">> \o targetHost \o <<"/", "\"", ">">>
        withBase == replaceFirst(loaded, <<"<head>">>, <<"<head>">> \o baseTag)
    IN  replaceFirst(withBase, <<"</head>">>,
                     <<"<script>", "proxy-script", "</script>", "</head>">>)

-----------------------------------------------------------------------------
(* The headers of the origin request *)

\* the list proxyHeaders of addBotDetectionEvasion
proxyHeaders ==
    {"x-forwarded-for", "x-real-ip", "x-forwarded-proto", "x-forwarded-host",
     "x-forwarded-port", "x-original-url", "x-rewrite-url", "x-forwarded-server",
     "x-cluster-client-ip", "x-client-ip", "x-remote-ip", "x-remote-addr",
     "via", "x-via", "connection", "upgrade", "proxy-connection"}

\* the headers a browser sends and the handlers set to look like one
browserHeaders ==
    {"host", "user-agent", "accept", "accept-language", "accept-encoding", "cookie",
     "upgrade-insecure-requests", "sec-fetch-dest", "sec-fetch-mode", "sec-fetch-site",
     "sec-fetch-user", "cache-control", "dnt", "sec-ch-ua", "sec-ch-ua-mobile",
     "sec-ch-ua-platform", "sec-ch-ua-arch", "sec-ch-ua-bitness",
     "sec-ch-ua-full-version", "sec-ch-ua-full-version-list", "sec-ch-ua-model",
     "sec-ch-ua-wow64", "viewport-width", "width", "sec-gpc", "referer",
     "if-modified-since", "x-requested-with"}

cloudFrontHeaders ==
    {"cloudfront-viewer-country", "cloudfront-viewer-country-region",
     "cloudfront-viewer-city", "cloudfront-viewer-city-latitude",
     "cloudfront-viewer-city-longitude", "cloudfront-viewer-time-zone",
     "cloudfront-viewer-tls", "cloudfront-viewer-tls-cipher"}

cloudflareHeaders == {"cf-connecting-ip", "cf-ray", "cf-visitor", "cf-ipcountry", "cf-timezone"}

akamaiHeaders == {"x-akamai-transformed", "x-akamai-edge-ip", "x-akamai-request-id"}

vercelHeaders ==
    {"x-vercel-id", "x-vercel-cache", "x-vercel-ip-country", "x-vercel-ip-city",
     "x-vercel-ip-region"}

\* header names are case-insensitive in Node: they are kept lower-case
RequestHeaderNames ==
    proxyHeaders \cup browserHeaders \cup cloudFrontHeaders \cup cloudflareHeaders
        \cup akamaiHeaders \cup vercelHeaders \cup {"x-proxy-request"}

NoRequestHeaders == [n \in RequestHeaderNames |-> None]

\* proxyReq.setHeader for each name of a set, with generated values
setHeaders(hdrs, names, value) ==
    [n \in DOMAIN hdrs |-> IF n \in names THEN value ELSE hdrs[n]]

\* proxyReq.removeHeader for each name of a set
removeHeaders(hdrs, names) == [n \in DOMAIN hdrs |-> IF n \in names THEN None ELSE hdrs[n]]

\* HeaderManipulator.manipulateRequestHeaders
manipulateRequestHeaders(proxyReq, reqHeaders, originalUrl) ==
    LET removed == removeHeaders(proxyReq, {"x-forwarded-for", "x-forwarded-proto",
                                            "x-forwarded-host"})
        withHost == IF reqHeaders["host"] # None
                    THEN setHeader(removed, "host", reqHeaders["host"])
                    ELSE removed
    IN  setHeader(setHeader(withHost, "x-proxy-request", <<"true">>),
                  "x-original-url", originalUrl)

\* ProxyServer.addCDNSpecificEvasion
addCDNSpecificEvasion(proxyReq, hostname, ip) ==
    LET cloudFront ==
            IF includes(hostname, <<"cloudfront">>) \/ includes(hostname, <<"amazonaws">>)
                 \/ includes(hostname, <<"s3">>)
            THEN setHeaders(
                     setHeader(setHeader(setHeader(proxyReq, "x-forwarded-for", ip),
                                         "x-forwarded-proto", <<"https">>),
                               "x-forwarded-port", <<"443">>),
                     cloudFrontHeaders, <<"viewer">>)
            ELSE proxyReq
        cloudflare ==
            IF includes(hostname, <<"cloudflare">>) \/ includes(hostname, <<"cf-">>)
            THEN setHeader(setHeaders(cloudFront, cloudflareHeaders, <<"viewer">>),
                           "cf-connecting-ip", ip)
            ELSE cloudFront
        akamai ==
            IF includes(hostname, <<"akamai">>) \/ includes(hostname, <<"akamaihd">>)
            THEN setHeader(setHeaders(cloudflare, akamaiHeaders, <<"edge">>),
                           "x-akamai-edge-ip", ip)
            ELSE cloudflare
    IN  IF includes(hostname, <<"vercel">>)
        THEN setHeaders(akamai, vercelHeaders, <<"edge">>)
        ELSE akamai

\* ProxyServer.addBotDetectionEvasion; xhr and ip are the draws of Math.random
addBotDetectionEvasion(proxyReq, hostname, xhr, ip) ==
    LET removed == removeHeaders(proxyReq, proxyHeaders)
        fingerprint ==
            setHeaders(removed,
                       browserHeaders \ {"host", "cookie", "x-requested-with",
                                         "sec-fetch-dest", "sec-fetch-mode",
                                         "sec-fetch-site", "sec-fetch-user",
                                         "upgrade-insecure-requests", "cache-control",
                                         "dnt"},
                       <<"browser">>)
        behaviour == IF xhr THEN setHeader(fingerprint, "x-requested-with",
                                           <<"XMLHttpRequest">>)
                     ELSE fingerprint
        cdn == addCDNSpecificEvasion(behaviour, hostname, ip)
    IN  setHeaders(setHeader(cdn, "connection", <<"keep-alive">>),
                   {"upgrade-insecure-requests", "cache-control", "dnt"}, <<"browser">>)

\* ProxyServer.setupProxyRequest, called by onProxyReq: its own header steps, then
\* manipulateRequestHeaders and addBotDetectionEvasion. proxyReq starts with the
\* headers of the inbound request.
setupProxyRequest(reqHeaders, hostname, originalUrl, xhr, ip) ==
    LET removed == removeHeaders(reqHeaders, {"x-forwarded-for", "x-real-ip",
                                              "x-forwarded-proto", "x-forwarded-host"})
        browser ==
            setHeaders(setHeader(removed, "connection", <<"keep-alive">>),
                       {"user-agent", "accept", "accept-language", "accept-encoding",
                        "upgrade-insecure-requests", "sec-fetch-dest", "sec-fetch-mode",
                        "sec-fetch-site", "sec-fetch-user", "cache-control", "dnt",
                        "sec-ch-ua", "sec-ch-ua-mobile", "sec-ch-ua-platform"},
                       <<"browser">>)
        referred == IF browser["referer"] = None
                    THEN setHeader(browser, "referer", <<"https://www.google.com/">>)
                    ELSE browser
        behaviour == IF xhr THEN setHeader(referred, "x-requested-with",
                                           <<"XMLHttpRequest">>)
                     ELSE referred
    IN  addBotDetectionEvasion(
            manipulateRequestHeaders(behaviour, reqHeaders, originalUrl),
            hostname, xhr, ip)

\* options.headers of makeDirectProxyRequest: req.headers spread, the handler's own
\* values over them, and the deletes before client.request
directRequestHeaders(v, reqHeaders, hostname) ==
    LET own == [n \in DOMAIN reqHeaders |->
                   IF n = "host" THEN hostname
                   ELSE IF n = "connection" THEN <<"close">>
                   ELSE IF n = "upgrade-insecure-requests" THEN <<"1">>
                   ELSE IF n \in {"user-agent", "accept", "accept-language",
                                  "accept-encoding"} /\ reqHeaders[n] = None
                   THEN <<"browser">>
                   ELSE reqHeaders[n]]
    IN  removeHeaders(own, {"x-forwarded-for", "x-real-ip", "x-forwarded-proto",
                            "x-forwarded-host"}
                           \cup (IF v = "streaming" THEN {"x-forwarded-port"} ELSE {}))

-----------------------------------------------------------------------------
(* Parts of the state a specification does not exercise stay at rest *)

CookieNames == {<<"id">>, <<"sid">>}

NoLatest == [d \in OriginDomains |-> [n \in CookieNames |-> None]]

NoRequest == [domain |-> <<>>, cookie |-> None, path |-> <<>>]

UrlIdle ==
    /\ url = <<>>
    /\ ctx = [proxyBaseUrl |-> <<>>, targetDomain |-> <<>>, targetPath |-> <<>>]
    /\ impl = "UrlRewriter"
    /\ rewritten = None
    /\ rewrittenTwice = None
    /\ clientRewritten = None
    /\ extracted = [ok |-> FALSE, host |-> <<>>, path |-> <<>>]
    /\ urlPc = "idle"

PolIdle ==
    /\ upHdrs = [h \in HeaderNames |-> None]
    /\ upSetCookie = <<>>
    /\ resHdrs = [h \in HeaderNames |-> None]
    /\ resSetCookie = <<>>
    /\ cookieMappings = [d \in OriginDomains |-> NoMapping]
    /\ latest = NoLatest
    /\ inReq = NoRequest
    /\ upCookie = None
    /\ exchanges = 0
    /\ polPc = "idle"

ContentIdle ==
    /\ doc = <<>>
    /\ docType = <<>>
    /\ context = [proxyBaseUrl |-> <<>>, targetDomain |-> <<>>, targetPath |-> <<>>]
    /\ processed = [threw |-> FALSE, value |-> <<>>]
    /\ passes = <<>>
    /\ contentPc = "idle"

\* proxyReq.setTimeout(ms, ...) of the hybrid and of the streaming handler
HybridTimeoutMs == 60000

StreamingTimeoutMs == 30000

\* no origin request was issued: client.request was not called
NoOriginRequest ==
    [open |-> FALSE, arrived |-> 0, fed |-> 0, paused |-> FALSE, complete |-> FALSE,
     ended |-> FALSE, requests |-> 0, timeout |-> 0, failure |-> None]

ProxyIdle ==
    /\ variant = "hybrid"
    /\ originStatus = 0
    /\ wire = <<>>
    /\ pxPc = "idle"
    /\ inbound = <<>>
    /\ up = NoOriginRequest
    /\ out = [headersSent |-> FALSE, sent |-> <<>>, rejected |-> 0]

RequestIdle ==
    /\ reqHost = <<>>
    /\ inHdrs = <<>>
    /\ outHdrs = <<>>
    /\ reqPc = "idle"

-----------------------------------------------------------------------------
(* Inputs of the URL translator harness *)

ProxyBase == <<"http:", "/", "/", "localhost", ":3000">>

Contexts ==
    {[proxyBaseUrl |-> ProxyBase, targetDomain |-> <<d>>, targetPath |-> p] :
        d \in {"example.com", "other.com"},
        p \in {<<"/">>, <<"/", "dir", "/", "page">>}}

OriginHosts == {<<"example.com">>, <<"other.com">>, <<"nouns.com">>, <<"localhost">>,
                <<"example.com", ":8443">>}
OriginPaths == {<<"/">>, <<"/", "a">>, <<"/", "a", "/", "b">>}
OriginQueries == {<<>>, <<"?", "x=1">>}
OriginHashes == {<<>>, <<"#", "h">>}

AbsoluteUrls ==
    {<<s>> \o <<"/", "/">> \o h \o p \o q \o f :
        s \in SchemeToks, h \in OriginHosts, p \in OriginPaths,
        q \in OriginQueries, f \in OriginHashes}

OtherUrls ==
    { <<>>,
      <<"/", "a">>, <<"/", "logo.png">>,
      <<"/", "proxy", "/", "example.com", "/", "a">>,
      ProxyBase \o <<"/", "proxy", "/", "example.com", "/", "a">>,
      <<"/", "/", "other.com", "/", "a">>,
      <<"a">>, <<"img", "/", "a">>, <<"httpdocs", "/", "a">>,
      <<"http:", "/", "/">>,
      <<"data:", "x">>, <<"javascript:", "x">>, <<"blob:", "x">>,
      <<"mailto:", "x">>, <<"tel:", "x">>, <<"#", "h">> }

UrlInputs == AbsoluteUrls \cup OtherUrls

UrlInit ==
    /\ url \in UrlInputs
    /\ ctx \in Contexts
    /\ impl \in {"UrlRewriter", "ContentProcessor"}
    /\ rewritten = None
    /\ rewrittenTwice = None
    /\ clientRewritten = None
    /\ extracted = NoTarget
    /\ urlPc = "start"
    /\ RequestIdle
    /\ PolIdle
    /\ ContentIdle
    /\ ProxyIdle

\* one call of rewriteUrl
Rewrite ==
    /\ urlPc = "start"
    /\ rewritten' = rewriteUrl(impl, url, ctx)
    /\ urlPc' = "rewritten"
    /\ UNCHANGED <<url, ctx, impl, rewrittenTwice, clientRewritten, extracted>>

\* the output of rewriteUrl handed to rewriteUrl again (a second rewriting pass)
RewriteAgain ==
    /\ urlPc = "rewritten"
    /\ rewrittenTwice' = rewriteUrl(impl, rewritten, ctx)
    /\ urlPc' = "twice"
    /\ UNCHANGED <<url, ctx, impl, rewritten, clientRewritten, extracted>>

\* the script in the browser, on the page /proxy/{targetDomain}{targetPath}, is
\* handed the URL as the origin wrote it
ClientRewrite ==
    /\ urlPc # "idle"
    /\ clientRewritten = None
    /\ clientRewritten' = URLRewriter_rewriteUrl(url, ctx)
    /\ UNCHANGED <<url, ctx, impl, rewritten, rewrittenTwice, extracted, urlPc>>

\* the browser fetches the rewritten URL and the proxy handler extracts the target
Extract ==
    /\ urlPc = "rewritten"
    /\ startsWith(rewritten, ctx.proxyBaseUrl)
    /\ extracted' = handlerTarget(requestFor(rewritten))
    /\ urlPc' = "extracted"
    /\ UNCHANGED <<url, ctx, impl, rewritten, rewrittenTwice, clientRewritten>>

UrlNext ==
    (Rewrite \/ RewriteAgain \/ ClientRewrite \/ Extract)
    /\ UNCHANGED <<polVars, contentVars, proxyVars, reqVars>>

SpecUrl == UrlInit /\ [][UrlNext]_vars

-----------------------------------------------------------------------------
(* Claims about the URL translator *)

\* C1: URL translation is idempotent: rewriteUrl(rewriteUrl(u)) = rewriteUrl(u) for
\* every URL and context, and a URL whose path already starts with /proxy/ is
\* returned unchanged.
C1_Idempotent ==
    /\ urlPc = "twice" => rewrittenTwice = rewritten
    /\ (urlPc = "rewritten" /\ url \in {<<"/", "proxy", "/", "example.com", "/", "a">>,
                                         ProxyBase \o <<"/", "proxy", "/", "example.com", "/", "a">>})
          => rewritten = url

\* C2: round trip: rewriteUrl("https://" + h + p) followed by the target extraction
\* of the resulting /proxy/{h}{p} request yields host h and path p.
C2_RoundTrip ==
    \A h \in OriginHosts, p \in OriginPaths :
        (urlPc = "extracted" /\ impl = "UrlRewriter" /\ url = <<"https:", "/", "/">> \o h \o p)
            => extracted = [ok |-> TRUE, host |-> h, path |-> p]

\* the round trip does succeed for a plain host without a port
C2_PlainHostRoundTrips ==
    \A p \in OriginPaths :
        (urlPc = "extracted" /\ impl = "UrlRewriter"
            /\ url = <<"https:", "/", "/", "example.com">> \o p)
            => extracted = [ok |-> TRUE, host |-> <<"example.com">>, path |-> p]

-----------------------------------------------------------------------------
(* Response-header policy: one origin response through each header handler *)

CspValues ==
    { None,
      <<"default-src", " ", "'self'">>,
      <<"frame-ancestors", " ", "'none'">>,
      <<"frame-ancestors">>,
      <<"default-src", " ", "'self'", ";", " ", "frame-ancestors", " ", "'none'">>,
      <<"Frame-Ancestors", " ", "'none'", ";", " ", "script-src", " ", "'self'">>,
      <<"default-src", " ", "'self'", ";", "frame-ancestors", " ", "'self'", " ",
        "example.com", ";", " ", "upgrade-insecure-requests">> }

FrameOptionValues == {None, <<"DENY">>, <<"SAMEORIGIN">>}

ContentTypeValues == {None, <<"text/html", ";", " ", "charset=utf-8">>, <<"text/css">>}

UpstreamHeaders ==
    {[NoHeaders EXCEPT !["x-frame-options"] = x,
                       !["content-security-policy"] = c,
                       !["content-security-policy-report-only"] = r,
                       !["content-type"] = t,
                       !["content-encoding"] = e] :
        x \in FrameOptionValues, c \in CspValues,
        r \in {None, <<"frame-ancestors", " ", "'none'">>},
        t \in ContentTypeValues, e \in {None, <<"gzip">>}}

HeaderPaths == {<<"/">>, <<"/", "app.js">>}

SetCookieLists ==
    { <<>>,
      << <<"id", "=", "abc", ";", " ", "Domain", "=", "example.com">> >>,
      << <<"id", "=", "xyz", ";", " ", "Path", "=", "/", ";", " ", "HttpOnly">> >>,
      << <<"sid", "=", "abc", "=", "=", ";", " ", "Secure">> >>,
      << <<"id", "=">> >>,
      << <<"sid", "=", "q">>, <<"id", "=", "abc">> >> }

HeadersInit ==
    /\ UrlIdle
    /\ RequestIdle
    /\ ContentIdle
    /\ ProxyIdle
    /\ upHdrs \in UpstreamHeaders
    /\ upSetCookie \in {SetCookieLists_i \in SetCookieLists : Len(SetCookieLists_i) <= 1}
    /\ resHdrs = NoHeaders
    /\ resSetCookie = <<>>
    /\ cookieMappings = EmptyCookieTable
    /\ latest = NoLatest
    /\ inReq \in {[domain |-> <<"example.com">>, cookie |-> None, path |-> q] :
                     q \in HeaderPaths}
    /\ upCookie = None
    /\ exchanges = 0
    /\ polPc = "start"

\* HeaderManipulator.manipulateResponseHeaders on the origin response
ManipulateResponse ==
    /\ polPc = "start"
    /\ resHdrs' = manipulateResponseHeaders(upHdrs, resHdrs)
    /\ upHdrs' = deleteUpstreamFrameOptions(upHdrs)
    /\ resSetCookie' = IF upSetCookie = <<>> THEN resSetCookie
                       ELSE mapCookieDomains(upSetCookie, ProxyHost)
    /\ polPc' = "manipulated"
    /\ UNCHANGED <<upSetCookie, cookieMappings, latest, inReq, upCookie, exchanges>>

\* the response callback of the hybrid makeDirectProxyRequest, up to the body
DirectResponse ==
    /\ polPc = "start"
    /\ resHdrs' = copyResponseHeaders(upHdrs, resHdrs, inReq.path)
    /\ LET r == processResponseCookies(cookieMappings, upSetCookie, inReq.domain, ProxyHost)
       IN  IF upSetCookie = <<>>
           THEN UNCHANGED <<cookieMappings, resSetCookie>>
           ELSE cookieMappings' = r.table /\ resSetCookie' = r.mapped
    /\ polPc' = "copied"
    /\ UNCHANGED <<upHdrs, upSetCookie, latest, inReq, upCookie, exchanges>>

\* the response callback of the streaming-decompression makeDirectProxyRequest
StreamingResponse ==
    /\ polPc = "start"
    /\ resHdrs' = copyResponseHeadersStreaming(upHdrs, resHdrs)
    /\ LET r == processResponseCookies(cookieMappings, upSetCookie, inReq.domain, ProxyHost)
       IN  IF upSetCookie = <<>>
           THEN UNCHANGED <<cookieMappings, resSetCookie>>
           ELSE cookieMappings' = r.table /\ resSetCookie' = r.mapped
    /\ polPc' = "streamed"
    /\ UNCHANGED <<upHdrs, upSetCookie, latest, inReq, upCookie, exchanges>>

HeadersNext == (ManipulateResponse \/ DirectResponse \/ StreamingResponse)
                  /\ UNCHANGED <<urlVars, contentVars, proxyVars, reqVars>>

SpecHeaders == HeadersInit /\ [][HeadersNext]_vars

\* the words of a policy segment: separators of a directive are blanks
RECURSIVE firstWord(_)
firstWord(segment) ==
    IF segment = <<>> THEN ""
    ELSE IF segment[1] = " " THEN firstWord(Tail(segment))
    ELSE segment[1]

\* a Content-Security-Policy value carries a frame-ancestors directive
hasFrameAncestors(value) ==
    /\ value # None
    /\ \E i \in 1..Len(split(value, ";")) :
          lowerTok(firstWord(split(value, ";")[i])) = "frame-ancestors"

-----------------------------------------------------------------------------
(* Cookie policy: requests and responses of several exchanges share the table *)

MaxExchanges == 5

PlainHtmlHeaders ==
    [NoHeaders EXCEPT !["content-type"] = <<"text/html", ";", " ", "charset=utf-8">>]

InboundCookies ==
    { None,
      <<"id", "=", "stale">>,
      <<"sid", "=", "stale", ";", " ", "id", "=", "stale">>,
      <<"other", "=", "1">>,
      <<"id", "=", "stale", ";", " ", "other", "=", "1">> }

\* the name=value pair of a Set-Cookie line: the text before the first ';'
setCookiePair(line) == trim(split(line, ";")[1])

\* the name of a name=value pair: the text before the first '='
pairName(pair) ==
    IF includes(pair, <<"=">>) THEN trim(SubSeq(pair, 1, indexOf(pair, <<"=">>) - 1))
    ELSE <<>>

\* the value of a name=value pair: the text after the first '='
pairValue(pair) ==
    IF includes(pair, <<"=">>)
    THEN trim(SubSeq(pair, indexOf(pair, <<"=">>) + 1, Len(pair)))
    ELSE <<>>

\* history of the Set-Cookie lines an origin sent, latest value per name
RECURSIVE noteSetCookies(_, _)
noteSetCookies(lines, known) ==
    IF lines = <<>> THEN known
    ELSE LET pair == setCookiePair(lines[1])
             n == pairName(pair)
         IN  noteSetCookies(Tail(lines),
                 IF n \in CookieNames /\ pairValue(pair) # <<>>
                 THEN [known EXCEPT ![n] = n \o <<"=">> \o pairValue(pair)]
                 ELSE known)

CookiesInit ==
    /\ UrlIdle
    /\ RequestIdle
    /\ ContentIdle
    /\ ProxyIdle
    /\ upHdrs = NoHeaders
    /\ upSetCookie = <<>>
    /\ resHdrs = NoHeaders
    /\ resSetCookie = <<>>
    /\ cookieMappings = EmptyCookieTable
    /\ latest = NoLatest
    /\ inReq = NoRequest
    /\ upCookie = None
    /\ exchanges = 0
    /\ polPc = "idle"

\* makeDirectProxyRequest up to client.request: the Cookie header sent to the origin
ForwardRequest(d, c) ==
    /\ exchanges < MaxExchanges
    /\ inReq' = [domain |-> d, cookie |-> c, path |-> <<"/">>]
    /\ upCookie' = upstreamCookieHeader(cookieMappings, c, d)
    /\ exchanges' = exchanges + 1
    /\ polPc' = "forwarded"
    /\ UNCHANGED <<upHdrs, upSetCookie, resHdrs, resSetCookie, cookieMappings, latest>>

\* the response callback of makeDirectProxyRequest for the request in flight
ReceiveResponse(lines) ==
    /\ exchanges < MaxExchanges
    /\ polPc = "forwarded"
    /\ upHdrs' = PlainHtmlHeaders
    /\ upSetCookie' = lines
    /\ resHdrs' = copyResponseHeaders(PlainHtmlHeaders, NoHeaders, inReq.path)
    /\ LET r == processResponseCookies(cookieMappings, lines, inReq.domain, ProxyHost)
       IN  IF lines = <<>>
           THEN cookieMappings' = cookieMappings /\ resSetCookie' = <<>>
           ELSE cookieMappings' = r.table /\ resSetCookie' = r.mapped
    /\ latest' = [latest EXCEPT ![inReq.domain] = noteSetCookies(lines, @)]
    /\ exchanges' = exchanges + 1
    /\ polPc' = "received"
    /\ UNCHANGED <<inReq, upCookie>>

CookiesNext ==
    /\ \/ \E d \in OriginDomains, c \in InboundCookies : ForwardRequest(d, c)
       \/ \E lines \in SetCookieLists : ReceiveResponse(lines)
    /\ UNCHANGED <<urlVars, contentVars, proxyVars, reqVars>>

SpecCookies == CookiesInit /\ [][CookiesNext]_vars

\* the pairs of a Cookie header
cookiePairs(header) ==
    IF header = None THEN <<>> ELSE filterNonEmpty(mapTrim(split(header, ";")))

\* the pairs of a Cookie header that carry the given name
pairsNamed(header, n) ==
    {cookiePairs(header)[i] : i \in {j \in 1..Len(cookiePairs(header)) :
                                        pairName(cookiePairs(header)[j]) = n}}

C4_PlainValuesConsistent ==
    polPc = "forwarded" =>
        \A n \in CookieNames :
            (/\ latest[inReq.domain][n] # None
             /\ ~includes(pairValue(latest[inReq.domain][n]), <<"=">>)
             /\ pairsNamed(inReq.cookie, n) # {})
                => pairsNamed(upCookie, n) = {latest[inReq.domain][n]}


\* the value the table holds for a name that a Set-Cookie of the domain has set
recordedPair(d, n) == IF n \in CookieNames THEN latest[d][n] ELSE None

\* C17: every name=value pair of the inbound Cookie header is carried by the Cookie
\* header of the origin request: with the most recent value recorded for its name in
\* the table of the target host if there is one, verbatim if there is none; no pair
\* is dropped
C17_RequestCookieMapping ==
    polPc = "forwarded" =>
        \A i \in 1..Len(cookiePairs(inReq.cookie)) :
            LET inPair == cookiePairs(inReq.cookie)[i]
                known == recordedPair(inReq.domain, pairName(inPair))
            IN  \E j \in 1..Len(cookiePairs(upCookie)) :
                    cookiePairs(upCookie)[j] = IF known # None THEN known ELSE inPair

\* the attributes of a Set-Cookie line: its parts after the name=value pair
attributesOf(line) == Tail(mapTrim(split(line, ";")))

\* C18: for every Set-Cookie line of the origin's response the name=value pair as
\* the origin wrote it is in the table of the origin domain, and a Set-Cookie goes
\* downstream with that pair, Domain set to the proxy host, and every Path,
\* Expires, Max-Age, Secure, HttpOnly and SameSite attribute as it was written
C18_SetCookieMapped ==
    polPc = "received" =>
        \A i \in 1..Len(upSetCookie) :
            LET line == upSetCookie[i]
                pair == setCookiePair(line)
                table == cookieMappings[inReq.domain].cookies
            IN  pairName(pair) # <<>> =>
                  /\ mapHas(table, pairName(pair))
                  /\ mapGet(table, pairName(pair)) = pair
                  /\ \E j \in 1..Len(resSetCookie) :
                        LET sent == attributesOf(resSetCookie[j])
                        IN  /\ setCookiePair(resSetCookie[j]) = pair
                            /\ \E k \in 1..Len(sent) :
                                  sent[k] = <<"Domain", "=">> \o ProxyHost
                            /\ \A a \in 1..Len(attributesOf(line)) :
                                  startsWith(toLowerCase(attributesOf(line)[a]),
                                             <<"domain">>)
                                  \/ \E k \in 1..Len(sent) :
                                        sent[k] = attributesOf(line)[a]

-----------------------------------------------------------------------------
(* Content pipeline: one body through a rewriter *)

Q == "\""

MalformedCss ==
    { <<"background:", "url", "(", "/", "img.png">>,
      <<"background:", "url", "(", "'", "'", ")">>,
      <<"body", "{", "color:", "red">> }

MalformedJs == { <<"fetch", "(", "'", "/", "api">>, <<"fetch", "(", "(", "{">> }

WellFormedJson ==
    { <<"{", Q, "a", Q, ":", Q, "/", "x", Q, "}">>,
      <<"{", Q, "a", Q, ":", " ", Q, "/", "x", Q, "}">>,
      <<"[", Q, "https:", "/", "/", "example.com", "/", "a", Q, ",", "1", "]">>,
      <<"{", Q, "a", Q, ":", "{", Q, "b", Q, ":", Q, "/", "x", Q, "}", ",",
        Q, "c", Q, ":", Q, "text", Q, "}">>,
      <<"{", Q, "__proto__", Q, ":", "{", Q, "a", Q, ":", Q, "/", "x", Q, "}", ",",
        Q, "b", Q, ":", "true", "}">>,
      <<"null">> }

\* bodies: HTML elements, style sheets, scripts and JSON documents, whole and cut short
Documents ==
    { \* HTML
      <<"<img", " ", "src", "=", Q, "/", "logo.png", Q, ">">>,
      <<"<video", " ", "poster", "=", Q, "/", "p.png", Q, ">">>,
      <<"<img", " ", "src", "=", Q, "/", "a", Q, " ", "data-src", "=", Q, "/", "b", Q, ">">>,
      <<"<img", " ", "alt", "=", Q, "/", "a", Q, " ", "src", "=", Q, "/", "a", Q, ">">>,
      <<"<img", " ", "alt", "=", Q, "logo", Q, " ", "src", "=", Q, "/", "a", Q, ">">>,
      <<"<img", " ", "srcset", "=", Q, "/", "a.png", " ", "2x", Q, ">">>,
      <<"<body", " ", "background", "=", Q, "/", "bg.png", Q, ">">>,
      <<"<html>", "<head>", "</head>", "<body", ">", "<a", " ", "href", "=", "'", "/", "x",
        "'", ">", "t", "</a>", "</body>", "</html>">>,
      <<"<form", " ", "action", "=", Q, "/", "s", Q, ">">>,
      <<"<link", " ", "href", "=", Q, "/", "style.css", Q, ">">>,
      <<"<script", " ", "src", "=", Q, "/", "app.js", Q, ">", "</script>">>,
      <<"<iframe", " ", "src", "=", Q, "https:", "/", "/", "other.com", "/", "a", Q, ">">>,
      <<"<div", " ", "data-href", "=", Q, "/", "d", Q, ">">>,
      <<"<source", " ", "src", "=", Q, "/", "v.mp4", Q, ">">>,
      <<"<div", " ", "style", "=", Q, "background:", "url", "(", "/", "img.png", ")", Q, ">">>,
      <<"<script>", "fetch", "(", "'", "/", "api", "'", ")", "</script>">>,
      <<"<head>", "<base", " ", "href", "=", Q, "/", Q, ">", "</head>">>,
      <<"<head>", "<base", " ", "href", "=", Q, "/", "sub", "/", Q, ">", "</head>">>,
      <<"<head>", "<base", " ", "target", "=", Q, "_blank", Q, ">", "</head>">>,
      <<"hello">>,
      \* CSS
      <<"background:", "url", "(", "/", "img.png", ")">>,
      <<"background:", "url", "(", "'", "/", "img.png", "'", ")">>,
      <<"background:", "url", " ", "(", " ", Q, "/", "img.png", Q, " ", ")">>,
      <<"src:", "url", "(", "https:", "/", "/", "other.com", "/", "a", ")">>,
      <<"src:", "url", "(", "data:", "x", ")">>,
      <<"src:", "url", "(", "a.png", ")">>,
      <<"src:", "URL", "(", "/", "img.png", ")">>,
      \* JavaScript
      <<"fetch", "(", "'", "/", "api", "'", ")">>,
      <<"xhr", ".open", "(", Q, "GET", Q, ",", " ", Q, "/", "api", Q, ")">>,
      \* JSON that does not parse
      <<"{", Q, "a", Q, ":", Q, "/", "x", Q>>,
      <<"{", Q, "a", Q, ":", "/", "x", "}">>,
      <<"[", Q, "/", "x", Q, ",", "]">>,
      <<>> }
        \cup MalformedCss \cup MalformedJs \cup WellFormedJson

ContentTypes ==
    { <<"text/html", ";", " ", "charset=utf-8">>, <<"Text/HTML">>, <<"text/css">>,
      <<"application/javascript">>, <<"text/javascript">>,
      <<"application/json", ";", " ", "charset=utf-8">>, <<"image/png">>, <<>> }

ContentInit ==
    /\ UrlIdle
    /\ RequestIdle
    /\ PolIdle
    /\ ProxyIdle
    /\ doc \in Documents
    /\ docType \in ContentTypes
    /\ context \in Contexts
    /\ processed = Returned(<<>>)
    /\ passes = <<>>
    /\ contentPc = "start"

\* ContentProcessor.processContent on the body
ProcessContent ==
    /\ contentPc = "start"
    /\ processed' = processContent(doc, docType, context)
    /\ contentPc' = "processed"
    /\ UNCHANGED <<doc, docType, context, passes>>

\* the cheerio-based ContentProcessor.rewriteCssUrls on the text of a style
\* element or attribute
RewriteCssUrls ==
    /\ contentPc = "start"
    /\ extractMimeType(docType) = <<"text/css">>
    /\ processed' = Returned(rewriteCssUrls(doc, context))
    /\ contentPc' = "restyled"
    /\ UNCHANGED <<doc, docType, context, passes>>

ContentNext ==
    (ProcessContent \/ RewriteCssUrls)
    /\ UNCHANGED <<urlVars, polVars, proxyVars, reqVars>>

SpecContent == ContentInit /\ [][ContentNext]_vars

mimeOfDoc == extractMimeType(docType)

-----------------------------------------------------------------------------
(* Injection passes over one HTML document *)

MaxPasses == 3

InjectDocuments ==
    {<<"<html>", "<head>", "</head>", "<body", ">", "<p>", "</body>", "</html>">>,
     <<"<html>", "<body", ">", "<p>", "</body>", "</html>">>,
     <<"<html>", "<head>", "</head>", "</html>">>,
     <<"<p>", "hello">>}

InjectInit ==
    /\ UrlIdle
    /\ RequestIdle
    /\ PolIdle
    /\ ProxyIdle
    /\ doc \in InjectDocuments
    /\ docType = <<"text/html">>
    /\ context = [proxyBaseUrl |-> ProxyBase, targetDomain |-> <<"example.com">>,
                  targetPath |-> <<"/">>]
    /\ processed = Returned(doc)
    /\ passes = <<>>
    /\ contentPc = "injecting"

\* one pass: what ran, whether the document had the marker before it, and whether
\* the pass changed the document
pass(kind, before, after) ==
    [kind |-> kind, marked |-> includes(before, <<CLIENT_PROCESSOR_MARKER>>),
     changed |-> after # before]

\* the wrapped res.send of the injection middleware (once more for each nesting)
MiddlewarePass ==
    /\ contentPc = "injecting"
    /\ Len(passes) < MaxPasses
    /\ LET after == injectClientProcessor(processed.value)
       IN  /\ processed' = Returned(after)
           /\ passes' = Append(passes, pass("middleware", processed.value, after))
    /\ UNCHANGED <<doc, docType, context, contentPc>>

\* HTMLInjector.injectClientProcessor, with or without its script file
InjectorPass ==
    /\ contentPc = "injecting"
    /\ Len(passes) < MaxPasses
    /\ \E readable \in BOOLEAN :
          LET after == HTMLInjector_injectClientProcessor(processed.value, readable)
          IN  /\ processed' = Returned(after)
              /\ passes' = Append(passes, pass(IF readable THEN "injector" ELSE "noScript",
                                               processed.value, after))
    /\ UNCHANGED <<doc, docType, context, contentPc>>

\* ContentProcessor.injectProxyScripts, the injection step of processHtmlContent
ContentProcessorPass ==
    /\ contentPc = "injecting"
    /\ Len(passes) < MaxPasses
    /\ LET after == injectProxyScripts(processed.value, context)
       IN  /\ processed' = Returned(after)
           /\ passes' = Append(passes, pass("contentProcessor", processed.value, after))
    /\ UNCHANGED <<doc, docType, context, contentPc>>

InjectNext ==
    (MiddlewarePass \/ InjectorPass \/ ContentProcessorPass)
    /\ UNCHANGED <<urlVars, polVars, proxyVars, reqVars>>

SpecInject == InjectInit /\ [][InjectNext]_vars

\* how often a token occurs in a text
occurrences(text, tok) == Cardinality({i \in 1..Len(text) : text[i] = tok})

\* C16: after any number of injection passes of which one injects the client
\* script, the document holds the marker comment and the script exactly once, and a
\* pass over a document that holds the marker leaves the document unchanged
C16_InjectedOnce ==
    /\ (\E i \in 1..Len(passes) : passes[i].kind \in {"middleware", "injector"}) =>
          /\ occurrences(processed.value, CLIENT_PROCESSOR_MARKER) = 1
          /\ occurrences(processed.value, "client-processor") = 1
    /\ \A i \in 1..Len(passes) : passes[i].marked => ~passes[i].changed

UrlAttributes ==
    {"src", "href", "action", "data-src", "data-href", "poster", "background", "srcset"}

\* the absolute-path value of the attribute at position j of the body, if any
attributeValue(j) ==
    IF /\ doc[j] \in UrlAttributes
       /\ j + 4 <= Len(doc)
       /\ doc[j + 1] = "=" /\ doc[j + 2] \in Quotes
       /\ doc[j + 3] = "/" /\ doc[j + 4] # "/"
    THEN SubSeq(doc, j + 3, firstIn(doc, j + 3, Quotes) - 1)
    ELSE <<>>

proxied(path) == context.proxyBaseUrl \o <<"/", "proxy", "/">> \o context.targetDomain \o path

\* C9: the HTML rewriter rewrites every attribute of the set {src, href, action,
\* data-src, data-href, poster, background, srcset} on every element: an
\* absolute-path value /p becomes {proxyBase}/proxy/{targetHost}/p.
C9_EveryUrlAttribute ==
    (contentPc = "processed" /\ mimeOfDoc = <<"text/html">>) =>
        \A j \in 1..Len(doc) :
            attributeValue(j) # <<>> =>
                includes(processed.value,
                    <<doc[j], "=", doc[j + 2]>> \o proxied(attributeValue(j)) \o <<doc[j + 2]>>)

\* the example of the claim does come out as stated
C9_ImgSrcExample ==
    (contentPc = "processed" /\ mimeOfDoc = <<"text/html">>
        /\ doc = <<"<img", " ", "src", "=", Q, "/", "logo.png", Q, ">">>)
        => includes(processed.value,
               <<"<img", " ", "src", "=", Q>> \o proxied(<<"/", "logo.png">>) \o <<Q, ">">>)

\* C10: the CSS rewriter passes the URL of every url(...) reference, quoted or
\* unquoted, through the URL translator, so that background:url(/img.png)
\* becomes url('{proxyBase}/proxy/{targetHost}/img.png').
C10_CssUrlQuoted ==
    (/\ contentPc \in {"processed", "restyled"}
     /\ mimeOfDoc = <<"text/css">>
     /\ doc \in {<<"background:", "url", "(", "/", "img.png", ")">>,
                 <<"background:", "url", "(", "'", "/", "img.png", "'", ")">>})
        => includes(processed.value,
               <<"url", "(", "'">> \o proxied(<<"/", "img.png">>) \o <<"'", ")">>)

\* processCssContent does put the translated URL in place, in the quoting of the input
C10_CssUrlInPlace ==
    (contentPc = "processed" /\ mimeOfDoc = <<"text/css">>
        /\ doc = <<"background:", "url", "(", "/", "img.png", ")">>)
        => processed.value =
               <<"background:", "url", "(">> \o proxied(<<"/", "img.png">>) \o <<")">>

-----------------------------------------------------------------------------
(* Specification of one proxied request: the callbacks of makeDirectProxyRequest,
   hybrid and streaming-decompression, in the orders Node can run them *)

Page == <<"<html>", "<head>", "</head>", "<body>", "hi", "</body>", "</html>">>

\* what the origin answers: status, headers and the bytes of the body
OriginResponses ==
    { [status |-> 200, type |-> <<"text/html">>, encoding |-> None, location |-> None,
       body |-> Page],
      [status |-> 200, type |-> <<"text/html">>, encoding |-> <<"gzip">>, location |-> None,
       body |-> compress("gzip", Page)],
      [status |-> 200, type |-> <<"text/html">>, encoding |-> <<"deflate">>,
       location |-> None, body |-> compress("deflate", <<"<p>", "hi">>)],
      [status |-> 200, type |-> <<"text/html">>, encoding |-> <<"gzip">>, location |-> None,
       body |-> <<"<p>", "hi">>],
      [status |-> 200, type |-> <<"text/html">>, encoding |-> None, location |-> None,
       body |-> <<"hello">>],
      [status |-> 200, type |-> <<"text/css">>, encoding |-> <<"gzip">>, location |-> None,
       body |-> compress("gzip", <<"body", "{", "}">>)],
      [status |-> 301, type |-> <<"text/html">>, encoding |-> None,
       location |-> <<"/", "new">>, body |-> <<"<p>", "moved">>],
      [status |-> 302, type |-> None, encoding |-> None,
       location |-> <<"https:", "/", "/", "example.com", ":8443", "/", "new", "#", "top">>,
       body |-> <<>>],
      [status |-> 301, type |-> None, encoding |-> None,
       location |-> <<"httpdocs", "/", "new">>, body |-> <<>>],
      [status |-> 304, type |-> None, encoding |-> None, location |-> None, body |-> <<>>],
      [status |-> 404, type |-> <<"text/html">>, encoding |-> None, location |-> None,
       body |-> <<"<p>", "gone">>] }

\* request paths that name a target
WellFormedPaths ==
    {<<"/", "proxy", "/", d, "/", f>> : d \in {"example.com", "other.com"},
                                       f \in {"old", "app.js"}}

\* request paths that name none: fewer than 3 segments, a first segment other than
\* proxy, an empty host segment (alone and with a path after it), a host that makes
\* no valid URL
MalformedPaths ==
    {<<"/", "proxy">>,
     <<"/", "other", "/", "example.com", "/", "old">>,
     <<"/", "proxy", "/">>,
     <<"/", "proxy", "/", "/", "old">>,
     <<"/", "proxy", "/", "exa mple.com", "/", "old">>}

RequestPaths == WellFormedPaths \cup MalformedPaths

\* err.message of the 'error' event of proxyReq: failures of the connection
\* attempt, and failures of an established connection
ConnectErrors ==
    {<<"connect", " ", "ECONNREFUSED", " ", "93.184.216.34:443">>,
     <<"getaddrinfo", " ", "ENOTFOUND", " ", "example.com">>,
     <<"connect", " ", "ETIMEDOUT", " ", "93.184.216.34:443">>}

SocketErrors == {<<"read", " ", "ECONNRESET">>, <<"socket hang up">>}

\* the failure recorded when the timer of proxyReq fires
TimerExpired == <<"<timer>">>

ProxyInit ==
    /\ UrlIdle
    /\ RequestIdle
    /\ ContentIdle
    /\ variant \in {"hybrid", "streaming"}
    /\ \E o \in OriginResponses :
          /\ originStatus = o.status
          /\ wire = o.body
          /\ upHdrs = [NoHeaders EXCEPT !["content-type"] = o.type,
                                        !["content-encoding"] = o.encoding,
                                        !["location"] = o.location]
    /\ upSetCookie = <<>>
    /\ resHdrs = NoHeaders
    /\ resSetCookie = <<>>
    /\ cookieMappings = EmptyCookieTable
    /\ latest = NoLatest
    /\ inReq = NoRequest
    /\ upCookie = None
    /\ exchanges = 0
    /\ polPc = "start"
    /\ inbound \in RequestPaths
    /\ pxPc = "received"
    /\ up = NoOriginRequest
    /\ out = [headersSent |-> FALSE, sent |-> <<>>, rejected |-> 0]

\* new URL(targetPath, baseTarget)
targetUrl == NewURL(<<"https:", "/", "/">> \o inReq.domain \o inReq.path)

contentEncoding == upHdrs["content-encoding"]

\* the body parts handed on so far
fedBytes == SubSeq(wire, 1, up.fed)

\* states in which a consumer reads proxyRes
Flowing == {"buffering", "inflating", "piping", "fallback"}

\* proxyRes has all of the body and nothing holds it back: its 'end' is due on the
\* next tick, before any other event of the socket or a timer
endPending == pxPc \in Flowing /\ up.complete /\ ~up.paused /\ ~up.ended

\* the 'end' handlers of the buffered HTML branches: res.send without a look at
\* res.headersSent; the streaming ones catch the exception and send once more
endHandler(o, content) ==
    IF variant = "hybrid"
    THEN writeResponse(o, sendResponse(originStatus, resHdrs, content))
    ELSE LET processedHtml ==
                 IF looksLikeHtml(content)
                 THEN Cheerio_processHtmlContent(content, <<"http:", "/", "/">> \o ProxyHost,
                                                 targetUrl.hostname)
                 ELSE content
             first == writeResponse(o, sendResponse(originStatus, resHdrs, processedHtml))
         IN  IF o.headersSent
             THEN writeResponse(first, sendResponse(originStatus, resHdrs, content))
             ELSE first

\* client.request(options, callback) with its timer armed
originRequest(u, ms) == [u EXCEPT !.open = TRUE, !.requests = @ + 1, !.timeout = ms]

\* a handler that sends the request once more when it fails
retryRequest(u, cause) == [u EXCEPT !.requests = @ + 1, !.failure = cause]

\* the origin request failed: its socket is gone
failRequest(u, cause) == [u EXCEPT !.open = FALSE, !.failure = cause]

\* createProxyHandler: the target is extracted; none is answered with 400, an
\* exception with 500, and for a target makeDirectProxyRequest issues the origin
\* request
OnRequest ==
    /\ pxPc = "received"
    /\ LET extractedUrl == extractTargetUrl([path |-> inbound, url |-> inbound])
           targetUrlObj == NewURL(extractedUrl)
       IN  IF extractedUrl = None
           THEN /\ out' = writeResponse(out, jsonResponse(400, resHdrs, "Invalid target URL"))
                /\ pxPc' = "rejected"
                /\ UNCHANGED <<inReq, upCookie, up>>
           ELSE IF ~targetUrlObj.ok
           THEN /\ out' = writeIfUnsent(out,
                              jsonErrorResponse(500, resHdrs, "Proxy error occurred",
                                                <<"Invalid URL">>))
                /\ pxPc' = "handlerError"
                /\ UNCHANGED <<inReq, upCookie, up>>
           ELSE /\ inReq' = [domain |-> targetUrlObj.hostname, cookie |-> None,
                             path |-> targetUrlObj.pathname \o targetUrlObj.search]
                /\ upCookie' = upstreamCookieHeader(cookieMappings, None,
                                                    targetUrlObj.hostname)
                /\ up' = originRequest(up, IF variant = "hybrid" THEN HybridTimeoutMs
                                           ELSE StreamingTimeoutMs)
                /\ pxPc' = "dispatched"
                /\ out' = out
    /\ UNCHANGED <<variant, inbound, originStatus, wire>>
    /\ UNCHANGED <<upHdrs, upSetCookie, resHdrs, resSetCookie, cookieMappings, latest,
                   exchanges, polPc>>

\* the callback of client.request: the response of the origin has arrived
OnResponse ==
    /\ pxPc = "dispatched"
    /\ up.open
    /\ LET location == upHdrs["location"]
           to == redirectLocation(location, targetUrl)
           notFoundJson == /\ originStatus = 404
                           /\ \/ includes(upHdrs["content-type"], <<"application/json">>)
                              \/ pathExtension(inReq.path) = "js"
           copied == IF variant = "hybrid"
                     THEN copyResponseHeaders(upHdrs, resHdrs, inReq.path)
                     ELSE copyResponseHeadersStreaming(upHdrs, resHdrs)
           cookies == processResponseCookies(cookieMappings, upSetCookie, inReq.domain,
                                             ProxyHost)
           isHtml == isHtmlType(upHdrs["content-type"])
       IN  IF variant = "hybrid" /\ originStatus \in 300..399 /\ location # None
           THEN IF to = None
                THEN /\ pxPc' = "threw"
                     /\ UNCHANGED <<resHdrs, resSetCookie, cookieMappings, out>>
                ELSE /\ pxPc' = "redirected"
                     /\ out' = writeResponse(out, redirectResponse(originStatus, resHdrs, to))
                     /\ resHdrs' = setHeader(resHdrs, "location", to)
                     /\ UNCHANGED <<resSetCookie, cookieMappings>>
           ELSE IF variant = "hybrid" /\ notFoundJson
           THEN /\ pxPc' = "notFound"
                /\ out' = writeResponse(out, jsonResponse(404, resHdrs, "Resource not found"))
                /\ UNCHANGED <<resHdrs, resSetCookie, cookieMappings>>
           ELSE /\ IF upSetCookie = <<>>
                   THEN UNCHANGED <<cookieMappings, resSetCookie>>
                   ELSE cookieMappings' = cookies.table /\ resSetCookie' = cookies.mapped
                /\ out' = out
                /\ IF isHtml /\ (variant = "streaming" \/ isSimpleSite(targetUrl.hostname))
                   THEN IF isCompressed(contentEncoding)
                        THEN /\ pxPc' = "inflating"
                             /\ resHdrs' = removeHeader(removeHeader(copied,
                                               "content-encoding"), "vary")
                        ELSE pxPc' = "buffering" /\ resHdrs' = copied
                   ELSE IF isHtml
                   THEN pxPc' = "buffering" /\ resHdrs' = copied
                   ELSE pxPc' = "piping" /\ resHdrs' = copied
    /\ UNCHANGED <<variant, inbound, originStatus, wire, up>>
    /\ UNCHANGED <<upHdrs, upSetCookie, latest, inReq, upCookie, exchanges, polPc>>

\* the socket delivers body bytes up to position n; a consumer that reads gets them:
\* the 'data' listeners collect, a decompressor may answer with back-pressure, a
\* pipe to res writes
OnData ==
    /\ pxPc # "dispatched"
    /\ up.open
    /\ ~endPending
    /\ \E n \in (up.arrived + 1)..Len(wire), full \in BOOLEAN :
          IF pxPc \in Flowing /\ ~up.paused
          THEN /\ up' = [up EXCEPT !.arrived = n, !.fed = n,
                                   !.paused = (pxPc = "inflating" /\ full)]
               /\ out' = IF pxPc \in {"piping", "fallback"}
                         THEN pipeChunk(out, originStatus, resHdrs, SubSeq(wire, up.fed + 1, n))
                         ELSE out
          ELSE /\ ~full
               /\ up' = [up EXCEPT !.arrived = n]
               /\ out' = out
    /\ UNCHANGED <<variant, inbound, originStatus, wire, pxPc, polVars>>

\* the parser has seen the end of the origin's message
OnComplete ==
    /\ pxPc # "dispatched"
    /\ up.open
    /\ ~up.complete
    /\ up.arrived = Len(wire)
    /\ up' = [up EXCEPT !.complete = TRUE]
    /\ UNCHANGED <<variant, inbound, originStatus, wire, pxPc, out, polVars>>

\* 'drain' of the decompressor: the pipe resumes proxyRes, what it held is handed on
OnDrain ==
    /\ pxPc = "inflating"
    /\ up.paused
    /\ up' = [up EXCEPT !.paused = FALSE, !.fed = up.arrived]
    /\ UNCHANGED <<variant, inbound, originStatus, wire, pxPc, out, polVars>>

\* 'end' of proxyRes: the socket of the request (connection: close) is released; the
\* buffering branches send, a pipe ends its destination
OnSourceEnd ==
    /\ endPending
    /\ up' = [up EXCEPT !.ended = TRUE, !.open = FALSE,
                        !.fed = IF pxPc \in {"piping", "fallback"} THEN up.arrived ELSE @]
    /\ CASE pxPc = "buffering" ->
              /\ out' = endHandler(out, toStringUtf8(fedBytes))
              /\ pxPc' = "finished"
         [] pxPc = "inflating" -> UNCHANGED <<out, pxPc>>
         [] pxPc \in {"piping", "fallback"} ->
              /\ out' = IF out.headersSent /\ up.fed = up.arrived THEN out
                        ELSE pipeChunk(out, originStatus, resHdrs,
                                       SubSeq(wire, up.fed + 1, up.arrived))
              /\ pxPc' = "finished"
    /\ UNCHANGED <<variant, inbound, originStatus, wire, polVars>>

\* 'end' of the decompressor, some time after the end of its input
OnStreamEnd ==
    /\ pxPc = "inflating"
    /\ up.ended
    /\ decompress(contentEncoding[1], fedBytes).ok
    /\ out' = endHandler(out, decompress(contentEncoding[1], fedBytes).plain)
    /\ pxPc' = "finished"
    /\ UNCHANGED <<variant, inbound, originStatus, wire, up, polVars>>

\* 'error' of the decompressor: its input does not start as the format demands, or
\* has ended short. The hybrid handler answers 500 if nothing was sent, the
\* streaming one pipes proxyRes to res
OnDecompressError ==
    /\ pxPc = "inflating"
    /\ \/ up.fed >= 1 /\ wire[1] # Framing[contentEncoding[1]][1]
       \/ up.ended /\ ~decompress(contentEncoding[1], fedBytes).ok
    /\ IF variant = "hybrid"
       THEN /\ out' = writeIfUnsent(out, jsonResponse(500, resHdrs, "Error processing response"))
            /\ pxPc' = "failed"
       ELSE /\ out' = out
            /\ pxPc' = IF up.ended THEN "stalled" ELSE "fallback"
    /\ up' = [up EXCEPT !.paused = (variant = "hybrid" /\ @)]
    /\ UNCHANGED <<variant, inbound, originStatus, wire, polVars>>

\* 'error' of proxyRes in the branches that listen to it: the socket went away
\* before the body was complete
OnAborted ==
    /\ pxPc = "buffering"
    /\ ~up.open
    /\ ~up.complete
    /\ out' = writeIfUnsent(out, jsonResponse(500, resHdrs, "Error processing response"))
    /\ pxPc' = "failed"
    /\ UNCHANGED <<variant, inbound, originStatus, wire, up, polVars>>

\* 'error' of proxyReq: the socket failed, before or after the response arrived; a
\* body that was complete is still read to its end
OnRequestError ==
    /\ up.open
    /\ ~endPending
    /\ \E message \in IF pxPc = "dispatched" THEN ConnectErrors \cup SocketErrors
                       ELSE SocketErrors :
          /\ out' = writeIfUnsent(out, requestErrorResponse(variant, resHdrs, message))
          /\ up' = failRequest(up, message)
    /\ pxPc' = IF pxPc = "dispatched" THEN "noResponse" ELSE pxPc
    /\ UNCHANGED <<variant, inbound, originStatus, wire, polVars>>

\* 'timeout' of proxyReq: the listeners of on('timeout') and of setTimeout run, each
\* answers 504 if nothing was sent; proxyReq.destroy() closes the socket and drops
\* what proxyRes held for its readers
OnTimeout ==
    /\ up.open
    /\ ~endPending
    /\ LET answers == timeoutResponses(variant, resHdrs)
           once == writeIfUnsent(out, answers[1])
       IN  out' = IF Len(answers) = 2 THEN writeIfUnsent(once, answers[2]) ELSE once
    /\ up' = [failRequest(up, TimerExpired) EXCEPT !.paused = FALSE]
    /\ pxPc' = IF pxPc = "dispatched" THEN "noResponse" ELSE pxPc
    /\ UNCHANGED <<variant, inbound, originStatus, wire, polVars>>

ProxyNext ==
    (OnRequest \/ OnResponse \/ OnData \/ OnComplete \/ OnDrain \/ OnSourceEnd \/ OnStreamEnd
        \/ OnDecompressError \/ OnAborted \/ OnRequestError \/ OnTimeout)
    /\ UNCHANGED <<urlVars, contentVars, reqVars>>

SpecProxy == ProxyInit /\ [][ProxyNext]_vars

\* the responses written for the request: those sent and those Express refused
responseWrites == Len(out.sent) + out.rejected

\* C6: for every order of the response, data, end, stream-error, request-error and
\* timeout callbacks at most one response is written for a request: no handler
\* writes a response after one was sent
C6_AtMostOneResponse == responseWrites <= 1

\* C7: when the origin sends an HTML body with Content-Encoding gzip or deflate, the
\* body answered with res.send goes out without a Content-Encoding header and with
\* a Content-Length that is the byte length of the body sent
C7_DecompressedHtml ==
    (isHtmlType(upHdrs["content-type"]) /\ isCompressed(contentEncoding)) =>
        \A i \in 1..Len(out.sent) :
            out.sent[i].kind = "send" =>
                /\ out.sent[i].headers["content-encoding"] = None
                /\ out.sent[i].length = byteLength(out.sent[i].body)

\* the Location the origin names, resolved against the target URL
resolvedLocation ==
    IF NewURL(upHdrs["location"]).ok THEN NewURL(upHdrs["location"])
    ELSE resolveUrl(upHdrs["location"], targetUrl)

\* C8: once the hybrid handler has seen a 3xx response with a Location header, the
\* redirect sent names the proxied form of the resolved location,
\* http://localhost:3000/proxy/{host}{path}{query}{hash}, and no byte of the
\* origin's body was read
C8_RedirectRewritten ==
    (/\ variant = "hybrid"
     /\ originStatus \in 300..399
     /\ upHdrs["location"] # None
     /\ pxPc \notin {"received", "rejected", "handlerError", "dispatched",
                    "noResponse"}) =>
        /\ Len(out.sent) >= 1
        /\ out.sent[1].kind = "redirect"
        /\ out.sent[1].headers["location"] =
               ProxyBase \o <<"/", "proxy", "/">> \o urlHost(resolvedLocation)
                   \o resolvedLocation.pathname \o resolvedLocation.search
                   \o resolvedLocation.hash
        /\ up.fed = 0

\* the status a failed origin fetch calls for: 504 for a timeout, 502 for a refused
\* connection and for a host that was not found; 0 for any other failure
statusByCause(cause) ==
    IF cause = TimerExpired \/ includes(cause, <<"ETIMEDOUT">>) THEN 504
    ELSE IF includes(cause, <<"ECONNREFUSED">>) \/ includes(cause, <<"ENOTFOUND">>) THEN 502
    ELSE 0

\* C11: an origin fetch that fails before any response of the origin is answered
\* once, with the status of its cause (timeout 504, connection refused 502, host not
\* found 502) and a JSON body that has an error and a details member
C11_StatusByCause ==
    (pxPc = "noResponse" /\ statusByCause(up.failure) # 0) =>
        /\ Len(out.sent) = 1
        /\ out.sent[1].kind = "json"
        /\ out.sent[1].status = statusByCause(up.failure)
        /\ includes(out.sent[1].body, <<"error">>)
        /\ includes(out.sent[1].body, <<"details">>)

\* C12: the handler never ends in its catch branch, and a request path that names
\* no target (fewer than 3 segments, first segment not proxy, empty host, no valid
\* URL) is answered 400 with the body {error: "Invalid target URL"} and no origin
\* request is issued for it
C12_MalformedTargetRejected ==
    /\ pxPc # "handlerError"
    /\ (inbound \in MalformedPaths /\ pxPc # "received") =>
          /\ pxPc = "rejected"
          /\ Len(out.sent) = 1
          /\ out.rejected = 0
          /\ out.sent[1].status = 400
          /\ out.sent[1].body = <<"{", "error", ":", "Invalid target URL", "}">>
          /\ up.requests = 0
          /\ ~up.open

\* a path whose host segment makes no valid URL was answered
C12_Witness ==
    /\ pxPc = "rejected"
    /\ inbound = <<"/", "proxy", "/", "exa mple.com", "/", "old">>
    /\ Len(out.sent) = 1

\* C13: every origin request issued has a timeout of 60 s, and once the timer has
\* fired the origin request is destroyed, its socket closed, and, unless the client
\* had its whole answer before, the response the client got is a 504
C13_TimeoutCancelsWith504 ==
    /\ up.requests > 0 => up.timeout = 60000
    /\ up.failure = TimerExpired =>
          /\ ~up.open
          /\ pxPc \notin {"redirected", "notFound"} =>
                (Len(out.sent) >= 1 /\ out.sent[1].status = 504)

C15_ServerClientAgree ==
    (rewritten # None /\ clientRewritten # None) => clientRewritten = rewritten

\* the URL an absolute or protocol-relative reference names
namedUrl == IF startsWith(url, <<"/", "/">>) THEN NewURL(<<"https:">> \o url) ELSE NewURL(url)

\* C19: an absolute (scheme://host/...) or protocol-relative (//host/...) URL, of the
\* target host or of another, is translated to
\* {proxyBase}/proxy/{host}{path}{query}{hash} with the host of the URL itself
C19_AbsoluteTranslated ==
    (rewritten # None /\ namedUrl.ok /\ ~startsWith(url, ctx.proxyBaseUrl)) =>
        rewritten = ctx.proxyBaseUrl \o <<"/", "proxy", "/">> \o urlHost(namedUrl)
                        \o namedUrl.pathname \o namedUrl.search \o namedUrl.hash

\* C20: a URL that starts with data:, blob:, javascript:, mailto:, tel: or # is
\* returned unchanged by the translator, in every rewrite context
C20_NeverRewrittenUnchanged ==
    (/\ rewritten # None
     /\ url # <<>>
     /\ url[1] \in {"data:", "blob:", "javascript:", "mailto:", "tel:", "#"}) =>
        rewritten = url

-----------------------------------------------------------------------------
(* Building the headers of one origin request *)

TargetHostnames ==
    {<<"example", ".", "com">>,
     <<"d111", ".", "cloudfront", ".", "net">>,
     <<"bucket", ".", "s3", ".", "amazonaws", ".", "com">>,
     <<"cf-", "assets", ".", "example", ".", "com">>,
     <<"media", ".", "akamaihd", ".", "net">>,
     <<"app", ".", "vercel", ".", "app">>}

\* headers a load balancer or an upstream proxy may have put on the inbound request
ForwardingHeaders == {"x-forwarded-for", "x-forwarded-port", "x-real-ip", "via"}

RandomIPs == {<<"203.0.113.1">>, <<"8.8.8.8">>}

RequestInit ==
    /\ UrlIdle
    /\ PolIdle
    /\ ContentIdle
    /\ ProxyIdle
    /\ reqHost \in TargetHostnames
    /\ \E present \in SUBSET ForwardingHeaders :
          inHdrs = [n \in RequestHeaderNames |->
                       IF n = "host" THEN <<"localhost", ":3000">>
                       ELSE IF n = "user-agent" THEN <<"Mozilla">>
                       ELSE IF n \in present THEN <<"hop">>
                       ELSE None]
    /\ outHdrs = NoRequestHeaders
    /\ reqPc = "start"

\* the proxy middleware builds the origin request and hands it to onProxyReq, which
\* calls setupProxyRequest
MiddlewareRequest ==
    /\ reqPc = "start"
    /\ \E xhr \in BOOLEAN, ip \in RandomIPs :
          outHdrs' = setupProxyRequest(inHdrs, reqHost, <<"/", "proxy", "/">> \o reqHost, xhr, ip)
    /\ reqPc' = "middleware"
    /\ UNCHANGED <<reqHost, inHdrs>>

\* makeDirectProxyRequest of the hybrid or the streaming server builds its options
DirectRequest ==
    /\ reqPc = "start"
    /\ \E v \in {"hybrid", "streaming"} :
          /\ outHdrs' = directRequestHeaders(v, inHdrs, reqHost)
          /\ reqPc' = v
    /\ UNCHANGED <<reqHost, inHdrs>>

RequestNext ==
    (MiddlewareRequest \/ DirectRequest)
    /\ UNCHANGED <<urlVars, polVars, contentVars, proxyVars>>

SpecRequest == RequestInit /\ [][RequestNext]_vars

\* the headers the claim names: x-forwarded-*, via, x-real-ip, x-original-url
RevealingHeaders ==
    {"x-forwarded-for", "x-forwarded-proto", "x-forwarded-host", "x-forwarded-port",
     "x-forwarded-server", "via", "x-real-ip", "x-original-url"}

\* C21: once the headers of the origin request are built, none of the
\* proxy-revealing headers is among them, for every target hostname
C21_NoProxyHeaders ==
    reqPc \notin {"idle", "start"} => \A n \in RevealingHeaders : outHdrs[n] = None

\* the names the Set-Cookie lines of a response carry
namesSet(lines) == {pairName(setCookiePair(lines[i])) : i \in 1..Len(lines)} \ {<<>>}

\* the pair of the last Set-Cookie line of a response that carries the name
lastPairNamed(lines, n) ==
    setCookiePair(lines[CHOOSE i \in 1..Len(lines) :
                            /\ pairName(setCookiePair(lines[i])) = n
                            /\ \A j \in (i + 1)..Len(lines) :
                                  pairName(setCookiePair(lines[j])) # n])

\* the table keeps one entry per name, and after a response it holds, for every
\* name the response set, the pair of the last Set-Cookie with that name
tableHoldsLatest ==
    /\ \A d \in OriginDomains :
          \A i, j \in 1..Len(cookieMappings[d].cookies) :
              cookieMappings[d].cookies[i].key = cookieMappings[d].cookies[j].key => i = j
    /\ polPc = "received" =>
          \A n \in namesSet(upSetCookie) :
              /\ mapHas(cookieMappings[inReq.domain].cookies, n)
              /\ mapGet(cookieMappings[inReq.domain].cookies, n)
                     = lastPairNamed(upSetCookie, n)

\* a response leaves the entries of other domains and of names it did not set as
\* they were
updateLeavesOthers ==
    polPc' = "received" =>
        /\ \A d \in OriginDomains \ {inReq.domain} :
              cookieMappings'[d].cookies = cookieMappings[d].cookies
        /\ \A i \in 1..Len(cookieMappings[inReq.domain].cookies) :
              LET held == cookieMappings[inReq.domain].cookies[i]
              IN  held.key \notin namesSet(upSetCookie') =>
                      /\ mapHas(cookieMappings'[inReq.domain].cookies, held.key)
                      /\ mapGet(cookieMappings'[inReq.domain].cookies, held.key) = held.val

\* C22: after any sequence of processed responses the table of an origin domain
\* holds for each cookie name exactly one entry, the name=value pair of the most
\* recent Set-Cookie with that name; an update overwrites and leaves the entries of
\* other names and of other domains unchanged
C22_TableInvariant == [](tableHoldsLatest) /\ [][updateLeavesOthers]_vars

\* the <base> tag the rewriters inject
canonicalBase(c) ==
    <<"<base", " ", "href", "=", "\"">> \o c.proxyBaseUrl \o <<"/", "proxy", "/">>
        \o c.targetDomain \o <<"/", "\"">>

\* C23: an HTML document that went through the rewriter holds exactly one <base>
\* tag, and its href is {proxyBase}/proxy/{targetHost}/
C23_SingleCanonicalBase ==
    (contentPc = "processed" /\ mimeOfDoc = <<"text/html">> /\ ~processed.threw) =>
        /\ occurrences(processed.value, "<base") = 1
        /\ includes(processed.value, canonicalBase(context))

\* C24: a non-HTML origin response that was served to its end reached the client
\* as one piped response whose body is the origin's bytes, with the
\* Content-Encoding header the origin sent
C24_NonHtmlPiped ==
    (~isHtmlType(upHdrs["content-type"]) /\ pxPc = "finished") =>
        /\ Len(out.sent) = 1
        /\ out.sent[1].kind = "pipe"
        /\ out.sent[1].body = wire
        /\ out.sent[1].headers["content-encoding"] = upHdrs["content-encoding"]

\* the origin declared gzip or deflate for an HTML body that is not in that format,
\* and the handler decompresses it
originBrokeEncoding ==
    /\ isHtmlType(upHdrs["content-type"])
    /\ variant = "streaming" \/ isSimpleSite(targetUrl.hostname)
    /\ isCompressed(contentEncoding)
    /\ ~decompress(contentEncoding[1], wire).ok

\* C25: when the decompressor of an origin body has failed and the origin's message
\* is over, the client holds one response with the origin's status whose body is
\* the origin's bytes
C25_RawPassThrough ==
    (originBrokeEncoding /\ pxPc \in {"finished", "failed", "stalled"}) =>
        /\ Len(out.sent) = 1
        /\ out.sent[1].status = originStatus
        /\ out.sent[1].body = wire

\* what the JSON rewriter owes for a parsed value: the same kind of value; a string
\* that starts with http://, https://, // or / translated, any other string and any
\* literal as it was; an array or an object of the same length, position by
\* position, every member under its key
RECURSIVE sameStructure(_, _, _)
sameStructure(before, after, c) ==
    /\ after.t = before.t
    /\ CASE before.t = "str" ->
              after.v = IF isAbsoluteHttp(before.v) \/ startsWith(before.v, <<"/">>)
                        THEN UrlRewriter_rewriteUrl(before.v, c)
                        ELSE before.v
         [] before.t = "lit" -> after.v = before.v
         [] before.t = "arr" ->
              /\ Len(after.v) = Len(before.v)
              /\ \A i \in 1..Len(before.v) : sameStructure(before.v[i], after.v[i], c)
         [] before.t = "obj" ->
              /\ Len(after.v) = Len(before.v)
              /\ \A i \in 1..Len(before.v) :
                    /\ after.v[i].key = before.v[i].key
                    /\ sameStructure(before.v[i].val, after.v[i].val, c)

\* C26: a JSON body that parses comes back as the text of a value of the same
\* structure with its URL strings translated and everything else as it was; a JSON
\* body that does not parse comes back unchanged
C26_JsonStructureKept ==
    (contentPc = "processed" /\ mimeOfDoc = <<"application/json">>) =>
        IF jsonParse(doc).ok
        THEN /\ jsonParse(processed.value).ok
             /\ sameStructure(jsonParse(doc).val, jsonParse(processed.value).val, context)
        ELSE processed.value = doc

\* the directives of a policy as lists of words, the name in lower case: the
\* segments between ';' that are not blank
cspDirectivesOf(value) ==
    LET parts == split(value, ";")
        F[i \in 0..Len(parts)] ==
            IF i = 0 THEN <<>>
            ELSE IF trim(parts[i]) = <<>> THEN F[i - 1]
            ELSE LET words == splitWs(trim(parts[i]))
                 IN  Append(F[i - 1], <<toLowerCase(words[1])>> \o Tail(words))
    IN  F[Len(parts)]

notFrameAncestors(words) == words[1] # <<"frame-ancestors">>

\* C27: the rebuilt Content-Security-Policy header holds exactly the directives of
\* the upstream header other than frame-ancestors, each with its values, those
\* without a value too; it is absent when no directive remains
C27_CspRebuilt ==
    (polPc = "manipulated" /\ upHdrs["content-security-policy"] # None) =>
        LET remaining == SelectSeq(cspDirectivesOf(upHdrs["content-security-policy"]),
                                   notFrameAncestors)
            sent == resHdrs["content-security-policy"]
        IN  IF remaining = <<>> THEN sent = None
            ELSE sent # None /\ cspDirectivesOf(sent) = remaining

\* the pairs of a Cookie header, as a set
pairSet(header) == {cookiePairs(header)[i] : i \in 1..Len(cookiePairs(header))}

\* the pair the table of a domain holds under a name, if any
jarPair(d, n) ==
    IF cookieMappings[d].exists /\ mapHas(cookieMappings[d].cookies, n)
    THEN mapGet(cookieMappings[d].cookies, n)
    ELSE None

\* C28: every pair of the Cookie header sent to origin domain D has a name that the
\* inbound Cookie header carries, and is either a pair the client sent or the pair
\* the table holds for D under that name; a pair that only the table of another
\* domain holds is not sent to D
C28_CookieIsolation ==
    polPc = "forwarded" =>
        \A pair \in pairSet(upCookie) :
            /\ pairsNamed(inReq.cookie, pairName(pair)) # {}
            /\ pair \in pairSet(inReq.cookie) \/ pair = jarPair(inReq.domain, pairName(pair))
            /\ \A d \in OriginDomains \ {inReq.domain} :
                  (pair = jarPair(d, pairName(pair)) /\ pair \notin pairSet(inReq.cookie))
                      => jarPair(inReq.domain, pairName(pair)) = pair

\* both origins have set the cookie id, each its own value, and a request to
\* other.com that carries id goes out with the value of other.com
C28_Witness ==
    /\ polPc = "forwarded"
    /\ inReq.domain = <<"other.com">>
    /\ inReq.cookie = <<"id", "=", "stale">>
    /\ jarPair(<<"example.com">>, <<"id">>) = <<"id", "=", "abc">>
    /\ jarPair(<<"other.com">>, <<"id">>) = <<"id", "=", "xyz">>
    /\ upCookie = <<"id", "=", "xyz">>

\* attributes that no rewriter is about
OtherAttributes == {"alt", "target", "title"}

\* the text name="value" of such an attribute at position j of the body, if any
otherAttributeAt(j) ==
    IF /\ doc[j] \in OtherAttributes
       /\ j + 3 <= Len(doc) /\ doc[j + 1] = "=" /\ doc[j + 2] \in Quotes
       /\ firstIn(doc, j + 3, {doc[j + 2]}) # 0
    THEN SubSeq(doc, j, firstIn(doc, j + 3, {doc[j + 2]}))
    ELSE <<>>

\* C29: rewriting the URL of a tag leaves the other attributes of the tag as they
\* were, also when the text of the URL occurs in them: every attribute that bears no
\* URL is in the processed document with the value it had
C29_OtherAttributesKept ==
    (contentPc = "processed" /\ mimeOfDoc = <<"text/html">> /\ ~processed.threw) =>
        \A j \in 1..Len(doc) :
            otherAttributeAt(j) # <<>> => includes(processed.value, otherAttributeAt(j))

\* the callbacks of a request that was sent run once they are due: the 'end',
\* 'drain' and 'error' listeners, and the timer of a socket that stays idle. What
\* the origin does (its response, its body, a failure of its socket) is not owed.
ProxyFairness ==
    /\ WF_vars(OnDrain /\ UNCHANGED <<urlVars, contentVars, reqVars>>)
    /\ WF_vars(OnSourceEnd /\ UNCHANGED <<urlVars, contentVars, reqVars>>)
    /\ WF_vars(OnStreamEnd /\ UNCHANGED <<urlVars, contentVars, reqVars>>)
    /\ WF_vars(OnDecompressError /\ UNCHANGED <<urlVars, contentVars, reqVars>>)
    /\ WF_vars(OnAborted /\ UNCHANGED <<urlVars, contentVars, reqVars>>)
    /\ WF_vars(OnTimeout /\ UNCHANGED <<urlVars, contentVars, reqVars>>)

SpecProxyFair == SpecProxy /\ ProxyFairness

\* the response to the client has ended: res.send, res.json or res.redirect was
\* called, or the pipe into res has ended it
responseCompleted ==
    /\ Len(out.sent) >= 1
    /\ out.sent[1].kind = "pipe" => pxPc = "finished"

\* C30: a request that was sent to the origin is followed by a completed response
\* to the client
C30_EventuallyAnswered == (pxPc = "dispatched") ~> responseCompleted

====
